---- MODULE Spec2Model ----
(***************************************************************************)
(* Document-templating core of the quotation/invoice backend:              *)
(*   - QuotationFillerService   (services/quotation_filler.py)             *)
(*   - DocumentTextImprover     (services/text_improver.py)                *)
(*   - AITemplateAnalyzer       (services/ai_template_analyzer.py)         *)
(* Text is a sequence of one-character strings.  A document is the tree    *)
(* python-docx exposes: body paragraphs, tables/rows/cells/paragraphs,     *)
(* sections with header and footer paragraphs; a paragraph is a sequence   *)
(* of runs, a run is a text and its formatting.                            *)
(***************************************************************************)
EXTENDS Integers, Sequences, FiniteSets, TLC

VARIABLES
    pc,               \* position of the call under way
    doc,              \* the document the call was given
    placeholder_map,  \* fill: name -> value, from _create_placeholder_map
    filled,           \* fill: the document after the fill
    unfilled,         \* fill: the returned list of unfilled names
    names_before,     \* extract_all_placeholders of doc
    names_after,      \* extract_all_placeholders of filled
    replacements,     \* apply: the ordered original -> replacement map
    applied,          \* apply: the document after one application
    reapplied,        \* apply: the document after a second application
    full_text,        \* analyze: the response the service was generating
    finish_reason,    \* analyze: "length" when the response was cut short
    result_text,      \* analyze: the response text received
    result_data,      \* analyze: the outcome of parsing or repairing it
    raised,           \* analyze: the exception the call ended with, if any
    response_data,    \* parse: the parsed response of the service
    document_text,    \* parse: the text of the analysed document
    variables,        \* parse: the variable list of the analysis result
    fill_data,        \* repeat: the data both fill calls are given
    second_fill,      \* repeat: what the second fill call returned
    second_apply,     \* repeat: what the second apply call returned
    clock,            \* api: the year and month of the server's clock
    quotations,       \* api: the quotation records and their files
    invoices,         \* api: the invoice records
    created,          \* api: the successful create_quotation calls, in order
    response,         \* api: the caller of the last request and its response
    blob,             \* extract: the bytes extract_from_content is given
    extraction,       \* extract: what extract_from_content returned or raised
    temp_files,       \* workers: the files of the temporary directory
    calls,            \* workers: the concurrent calls, their position and locals
    requests,         \* requests: the concurrent create_quotation requests, their position and locals
    wall_clock,       \* scheduler: the time of day counted in days
    scheduled_emails, \* scheduler: the rows of the scheduled_emails table, by id
    email_history,    \* scheduler: the email_history rows, one for each send_email call
    process_runs,     \* scheduler: the process_scheduled_emails executions and their locals
    cancel_returned   \* scheduler: the cancel_scheduled_email calls that have returned

vars == <<pc, doc, placeholder_map, filled, unfilled, names_before, names_after,
          replacements, applied, reapplied,
          full_text, finish_reason, result_text, result_data, raised,
          response_data, document_text, variables,
          fill_data, second_fill, second_apply,
          clock, quotations, invoices, created, response,
          blob, extraction,
          temp_files, calls,
          requests,
          wall_clock, scheduled_emails, email_history, process_runs, cancel_returned>>

fillVars == <<placeholder_map, filled, unfilled, names_before, names_after>>
applyVars == <<replacements, applied, reapplied>>
analyzeVars == <<full_text, finish_reason, result_text, result_data, raised>>
parseVars == <<response_data, document_text, variables>>
repeatVars == <<fill_data, second_fill, second_apply>>
apiVars == <<clock, quotations, invoices, created, response>>
extractVars == <<blob, extraction>>
workerVars == <<temp_files, calls>>
requestVars == <<requests>>
schedulerVars == <<wall_clock, scheduled_emails, email_history, process_runs, cancel_returned>>

(***************************************************************************)
(* Bounds of the model.                                                    *)
(***************************************************************************)
MaxPieces == 2
MaxTextLen == 3
MaxKeys == 2
MaxVariables == 3
MaxQuotations == 2
MaxInvoices == 1
MaxParagraphs == 2

(***************************************************************************)
(* Python str operations on sequences of characters.                       *)
(***************************************************************************)
\* ord() of the characters the model uses
Ord(c) ==
    CASE c = "\n" -> 10
      [] c = " " -> 32
      [] c = "\"" -> 34
      [] c = "," -> 44
      [] c = "-" -> 45
      [] c = "0" -> 48
      [] c = "1" -> 49
      [] c = "2" -> 50
      [] c = "3" -> 51
      [] c = "4" -> 52
      [] c = "5" -> 53
      [] c = "6" -> 54
      [] c = "7" -> 55
      [] c = "8" -> 56
      [] c = "9" -> 57
      [] c = ":" -> 58
      [] c = "A" -> 65
      [] c = "B" -> 66
      [] c = "Q" -> 81
      [] c = "[" -> 91
      [] c = "]" -> 93
      [] c = "a" -> 97
      [] c = "b" -> 98
      [] c = "v" -> 118
      [] c = "w" -> 119
      [] c = "x" -> 120
      [] c = "{" -> 123
      [] c = "}" -> 125
      [] OTHER -> 63

\* s < t in Python's string order
RECURSIVE str_lt(_, _)
str_lt(s, t) ==
    IF t = <<>> THEN FALSE
    ELSE IF s = <<>> THEN TRUE
    ELSE IF Ord(Head(s)) # Ord(Head(t)) THEN Ord(Head(s)) < Ord(Head(t))
    ELSE str_lt(Tail(s), Tail(t))

\* s[i:i+len(sub)] == sub
OccursAt(sub, s, i) ==
    /\ i >= 1
    /\ i + Len(sub) - 1 <= Len(s)
    /\ \A k \in 1..Len(sub) : s[i + k - 1] = sub[k]

\* sub in s
str_in(sub, s) == \E i \in 1..(Len(s) + 1) : OccursAt(sub, s, i)

\* s.find(sub, start): the first index (1-based) at or after start, 0 when absent
str_find(sub, s, start) ==
    IF \E i \in start..(Len(s) + 1) : OccursAt(sub, s, i)
    THEN CHOOSE i \in start..(Len(s) + 1) :
            /\ OccursAt(sub, s, i)
            /\ \A j \in start..(i - 1) : ~OccursAt(sub, s, j)
    ELSE 0

\* s.replace(old, new) for a non-empty old: leftmost non-overlapping occurrences
RECURSIVE ReplaceFrom(_, _, _, _)
ReplaceFrom(s, old, new, i) ==
    IF i > Len(s) THEN <<>>
    ELSE IF OccursAt(old, s, i) THEN new \o ReplaceFrom(s, old, new, i + Len(old))
    ELSE <<s[i]>> \o ReplaceFrom(s, old, new, i + 1)

\* s.replace("", new): new before every character and at the end
RECURSIVE Interleave(_, _)
Interleave(s, new) ==
    IF s = <<>> THEN new ELSE new \o <<Head(s)>> \o Interleave(Tail(s), new)

str_replace(s, old, new) ==
    IF old = <<>> THEN Interleave(s, new) ELSE ReplaceFrom(s, old, new, 1)

IsSpace(c) == c \in {" ", "\n", "\t"}

\* s.strip()
RECURSIVE str_lstrip(_)
str_lstrip(s) ==
    IF s # <<>> /\ IsSpace(Head(s)) THEN str_lstrip(Tail(s)) ELSE s

RECURSIVE str_rstrip(_)
str_rstrip(s) ==
    IF s # <<>> /\ IsSpace(s[Len(s)]) THEN str_rstrip(SubSeq(s, 1, Len(s) - 1)) ELSE s

str_strip(s) == str_rstrip(str_lstrip(s))

RECURSIVE Concat(_)
Concat(ss) == IF ss = <<>> THEN <<>> ELSE Head(ss) \o Concat(Tail(ss))

\* sep.join(ss)
RECURSIVE str_join(_, _)
str_join(sep, ss) ==
    IF ss = <<>> THEN <<>>
    ELSE IF Len(ss) = 1 THEN ss[1]
    ELSE ss[1] \o sep \o str_join(sep, Tail(ss))

Range(f) == {f[i] : i \in DOMAIN f}

\* the sequences that list every element of the set S exactly once
Orderings(S) ==
    {q \in [1..Cardinality(S) -> S] : \A i, j \in 1..Cardinality(S) : q[i] = q[j] => i = j}

\* sorted(list): the stable insertion of each element after the ones not greater
RECURSIVE InsertSorted(_, _)
InsertSorted(x, q) ==
    IF q = <<>> THEN <<x>>
    ELSE IF str_lt(x, Head(q)) THEN <<x>> \o q
    ELSE <<Head(q)>> \o InsertSorted(x, Tail(q))

RECURSIVE sorted(_)
sorted(q) ==
    IF q = <<>> THEN <<>> ELSE InsertSorted(q[Len(q)], sorted(SubSeq(q, 1, Len(q) - 1)))

(***************************************************************************)
(* QuotationFillerService.                                                 *)
(***************************************************************************)
\* placeholder_pattern = \{\{([^}]+)\}\} tried at position p: "{{", then the
\* longest stretch without "}" (at least one character), then "}}".
\* The index of the first "}" at or after i, Len(text) + 1 when there is none.
RECURSIVE FirstClose(_, _)
FirstClose(text, i) ==
    IF i > Len(text) THEN Len(text) + 1
    ELSE IF text[i] = "}" THEN i
    ELSE FirstClose(text, i + 1)

\* the pattern with [^}]* for [^}]+: an empty name matches too
MatchesAt_EmptyName(text, p) ==
    /\ p + 1 <= Len(text)
    /\ text[p] = "{"
    /\ text[p + 1] = "{"
    /\ LET q == FirstClose(text, p + 2)
       IN /\ q >= p + 2
          /\ q + 1 <= Len(text)
          /\ text[q + 1] = "}"

MatchesAt(text, p) ==
    /\ p + 1 <= Len(text)
    /\ text[p] = "{"
    /\ text[p + 1] = "{"
    /\ LET q == FirstClose(text, p + 2)
       IN /\ q >= p + 3
          /\ q + 1 <= Len(text)
          /\ text[q + 1] = "}"

\* the match object: group(0) is text[start..end], group(1) the name
MatchAt(text, p) ==
    LET q == FirstClose(text, p + 2)
    IN [start |-> p, end |-> q + 1,
        group0 |-> SubSeq(text, p, q + 1),
        group1 |-> SubSeq(text, p + 2, q - 1)]

\* placeholder_pattern.finditer(text): the leftmost non-overlapping matches
RECURSIVE FindIterFrom(_, _)
FindIterFrom(text, p) ==
    IF p > Len(text) THEN <<>>
    ELSE IF MatchesAt(text, p)
         THEN <<MatchAt(text, p)>> \o FindIterFrom(text, MatchAt(text, p).end + 1)
         ELSE FindIterFrom(text, p + 1)

placeholder_pattern_finditer(text) == FindIterFrom(text, 1)

\* placeholder_pattern.findall(text): the group(1) of every match
placeholder_pattern_findall(text) ==
    LET ms == placeholder_pattern_finditer(text)
    IN [i \in 1..Len(ms) |-> ms[i].group1]

\* paragraph.text: the run texts joined
paragraph_text(paragraph) ==
    Concat([i \in 1..Len(paragraph.runs) |-> paragraph.runs[i].text])

\* The names _create_placeholder_map maps: the client, contact and company
\* fields (two stand for them) and the date names (one stands for them).
DataNames == {<<"a">>, <<"b">>}
DateNames == {<<"d">>}

\* _create_placeholder_map: str(data.get(field) or '') for every data name, the
\* formatted current date for every date name
_create_placeholder_map(client_data, current_date) ==
    [n \in DataNames \cup DateNames |->
        IF n \in DateNames THEN current_date
        ELSE IF n \in DOMAIN client_data THEN client_data[n] ELSE <<>>]

\* the loop without the test `if value`: an empty value replaces the token
RECURSIVE FillMatches_ReplaceEmpty(_, _, _, _)
FillMatches_ReplaceEmpty(ms, text, unf, pmap) ==
    IF ms = <<>> THEN [text |-> text, unfilled |-> unf]
    ELSE LET placeholder_name == str_strip(Head(ms).group1)
             placeholder_full == Head(ms).group0
         IN IF placeholder_name \in DOMAIN pmap
            THEN FillMatches_ReplaceEmpty(Tail(ms),
                     str_replace(text, placeholder_full, pmap[placeholder_name]), unf, pmap)
            ELSE FillMatches_ReplaceEmpty(Tail(ms), text, unf \cup {placeholder_name}, pmap)

\* The loop over the matches of one run: text is rebound by each replace,
\* the matches are those of the run's original text.
RECURSIVE FillMatches(_, _, _, _)
FillMatches(ms, text, unf, pmap) ==
    IF ms = <<>> THEN [text |-> text, unfilled |-> unf]
    ELSE LET placeholder_name == str_strip(Head(ms).group1)
             placeholder_full == Head(ms).group0
         IN IF placeholder_name \in DOMAIN pmap
            THEN IF pmap[placeholder_name] # <<>>
                 THEN FillMatches(Tail(ms),
                                  str_replace(text, placeholder_full, pmap[placeholder_name]),
                                  unf, pmap)
                 ELSE FillMatches(Tail(ms), text, unf \cup {placeholder_name}, pmap)
            ELSE FillMatches(Tail(ms), text, unf \cup {placeholder_name}, pmap)

_fill_run(run, pmap) ==
    LET r == FillMatches(placeholder_pattern_finditer(run.text), run.text, {}, pmap)
    IN [run |-> [run EXCEPT !.text = r.text], unfilled |-> r.unfilled]

\* _fill_paragraph leaving the loop after the first run
_fill_paragraph_first_run(paragraph, pmap) ==
    IF placeholder_pattern_findall(paragraph_text(paragraph)) = <<>>
    THEN [paragraph |-> paragraph, unfilled |-> {}]
    ELSE LET r == _fill_run(paragraph.runs[1], pmap)
         IN [paragraph |-> [paragraph EXCEPT !.runs[1] = r.run], unfilled |-> r.unfilled]

\* _fill_paragraph filling the joined text and writing it back as one run
_fill_paragraph_joined(paragraph, pmap) ==
    IF placeholder_pattern_findall(paragraph_text(paragraph)) = <<>>
    THEN [paragraph |-> paragraph, unfilled |-> {}]
    ELSE LET r == _fill_run([paragraph.runs[1] EXCEPT !.text = paragraph_text(paragraph)], pmap)
         IN [paragraph |-> [paragraph EXCEPT !.runs = <<r.run>>], unfilled |-> r.unfilled]

\* _fill_paragraph reporting also the unresolved names of the tokens that
\* findall finds in the paragraph's joined text
_fill_paragraph_report_joined(paragraph, pmap) ==
    IF placeholder_pattern_findall(paragraph_text(paragraph)) = <<>>
    THEN [paragraph |-> paragraph, unfilled |-> {}]
    ELSE LET rs == [i \in 1..Len(paragraph.runs) |-> _fill_run(paragraph.runs[i], pmap)]
             placeholders == placeholder_pattern_findall(paragraph_text(paragraph))
         IN [paragraph |-> [paragraph EXCEPT
                               !.runs = [i \in 1..Len(paragraph.runs) |-> rs[i].run]],
             unfilled |-> UNION {rs[i].unfilled : i \in 1..Len(rs)}
                            \cup {str_strip(placeholders[i]) : i \in
                                    {k \in 1..Len(placeholders) :
                                        \/ str_strip(placeholders[k]) \notin DOMAIN pmap
                                        \/ pmap[str_strip(placeholders[k])] = <<>>}}]

\* _fill_paragraph: the paragraph after the fill and the set of unfilled names
_fill_paragraph(paragraph, pmap) ==
    IF placeholder_pattern_findall(paragraph_text(paragraph)) = <<>>
    THEN [paragraph |-> paragraph, unfilled |-> {}]
    ELSE LET rs == [i \in 1..Len(paragraph.runs) |-> _fill_run(paragraph.runs[i], pmap)]
         IN [paragraph |-> [paragraph EXCEPT
                               !.runs = [i \in 1..Len(paragraph.runs) |-> rs[i].run]],
             unfilled |-> UNION {rs[i].unfilled : i \in 1..Len(rs)}]

\* Every paragraph the two traversals visit, in their order: body paragraphs,
\* table cells' paragraphs, header paragraphs, footer paragraphs.
CellParagraphs(d) ==
    Concat([t \in 1..Len(d.tables) |->
        Concat([r \in 1..Len(d.tables[t].rows) |->
            Concat([c \in 1..Len(d.tables[t].rows[r].cells) |->
                d.tables[t].rows[r].cells[c].paragraphs])])])

HeaderParagraphs(d) == Concat([s \in 1..Len(d.sections) |-> d.sections[s].header])
FooterParagraphs(d) == Concat([s \in 1..Len(d.sections) |-> d.sections[s].footer])

AllParagraphs(d) ==
    d.paragraphs \o CellParagraphs(d) \o HeaderParagraphs(d) \o FooterParagraphs(d)

\* fill_template_with_client_data, up to the returned list: the document
\* after the fill and the set `unfilled`.
fill_template_with_client_data(d, pmap) ==
    [doc |->
        [paragraphs |->
            [i \in 1..Len(d.paragraphs) |-> _fill_paragraph(d.paragraphs[i], pmap).paragraph],
         tables |->
            [t \in 1..Len(d.tables) |->
                [rows |-> [r \in 1..Len(d.tables[t].rows) |->
                    [cells |-> [c \in 1..Len(d.tables[t].rows[r].cells) |->
                        [paragraphs |->
                            [k \in 1..Len(d.tables[t].rows[r].cells[c].paragraphs) |->
                                _fill_paragraph(d.tables[t].rows[r].cells[c].paragraphs[k],
                                                pmap).paragraph]]]]]]],
         sections |->
            [s \in 1..Len(d.sections) |->
                [header |-> [k \in 1..Len(d.sections[s].header) |->
                                _fill_paragraph(d.sections[s].header[k], pmap).paragraph],
                 footer |-> [k \in 1..Len(d.sections[s].footer) |->
                                _fill_paragraph(d.sections[s].footer[k], pmap).paragraph]]]],
     unfilled |-> UNION {_fill_paragraph(AllParagraphs(d)[i], pmap).unfilled :
                            i \in 1..Len(AllParagraphs(d))}]

\* extract_all_placeholders: the set of raw names, then sorted(p.strip() ...)
extract_all_placeholders(d) ==
    LET placeholders == UNION {Range(placeholder_pattern_findall(paragraph_text(AllParagraphs(d)[i]))) :
                                  i \in 1..Len(AllParagraphs(d))}
        listed == CHOOSE q \in Orderings(placeholders) : TRUE
    IN sorted([i \in 1..Len(listed) |-> str_strip(listed[i])])

(***************************************************************************)
(* Input documents.  A paragraph's text is up to MaxPieces pieces joined,  *)
(* cut into one or two runs at any character; the document holds it in the *)
(* body, a table cell, the header or the footer, and a second paragraph in *)
(* every other place.                                                      *)
(***************************************************************************)
Pieces ==
    { <<"{", "{", "a", "}", "}">>,
      <<"{", "{", " ", "a", " ", "}", "}">>,
      <<"{", "{", "b", "}", "}">>,
      <<"{", "{", "x", "}", "}">>,
      <<"{", "{">>,
      <<"}", "}">>,
      <<"x">> }

RECURSIVE TextsOf(_)
TextsOf(n) ==
    IF n = 0 THEN {<<>>}
    ELSE TextsOf(n - 1) \cup {t \o q : t \in TextsOf(n - 1), q \in Pieces}

\* a name that itself holds braces, beside the token it ends with
NestedTexts == { <<"{", "{", "{", "{", "a", "}", "}", "{", "{", "a", "}", "}">> }

Texts == TextsOf(MaxPieces) \cup NestedTexts

Run(text, fmt) == [text |-> text, fmt |-> fmt]
Paragraph(runs) == [runs |-> runs]

\* the paragraph of text t whose run boundary follows character k (none for k = 0)
SplitParagraph(t, k) ==
    IF k = 0 THEN Paragraph(<<Run(t, "bold")>>)
    ELSE Paragraph(<<Run(SubSeq(t, 1, k), "bold"), Run(SubSeq(t, k + 1, Len(t)), "italic")>>)

ParagraphsOf(t) == {SplitParagraph(t, k) : k \in 0..(Len(t) - 1)}

\* paragraphs of three runs: a token cut twice, and a token cut twice between
\* a plain character and a token that lies inside the last run
ThreeRunParagraphs ==
    { Paragraph(<<Run(<<"{", "{">>, "bold"), Run(<<"a">>, "italic"), Run(<<"}", "}">>, "bold")>>),
      Paragraph(<<Run(<<"x", "{", "{">>, "bold"), Run(<<"b">>, "italic"),
                  Run(<<"}", "}", "{", "{", "a", "}", "}">>, "bold")>>) }

Paragraphs ==
    UNION {ParagraphsOf(t) : t \in Texts} \cup {SplitParagraph(<<>>, 0)} \cup ThreeRunParagraphs

OtherParagraphs ==
    { Paragraph(<<Run(<<"x">>, "bold")>>),
      Paragraph(<<Run(<<"{", "{", "b", "}", "}">>, "italic")>>) }

Places == {"body", "cell", "header", "footer"}

DocWith(place, p, q) ==
    [paragraphs |-> <<IF place = "body" THEN p ELSE q>>,
     tables |-> << [rows |-> << [cells |->
                     << [paragraphs |-> <<IF place = "cell" THEN p ELSE q>>],
                        [paragraphs |-> <<q, Paragraph(<<Run(<<"x">>, "bold")>>)>>] >>] >>] >>,
     sections |-> << [header |-> <<IF place = "header" THEN p ELSE q>>,
                      footer |-> <<IF place = "footer" THEN p ELSE q>>] >>]

PlainParagraph == Paragraph(<<Run(<<"x">>, "bold")>>)

Docs == {DocWith(place, p, PlainParagraph) : place \in Places, p \in Paragraphs}
           \cup {DocWith("body", p, q) : p \in Paragraphs, q \in OtherParagraphs}

EmptyDoc == [paragraphs |-> <<>>, tables |-> <<>>, sections |-> <<>>]

\* client, contact and company data: a field is absent, empty or a text
ClientDatas ==
    { [n \in dom |-> IF n = <<"a">> THEN va ELSE vb] :
        dom \in {{<<"a">>, <<"b">>}},
        va \in {<<>>, <<"v">>, <<"{", "{", "b">>},
        vb \in {<<>>, <<"w">>} }

CurrentDates == {<<"1">>}

(***************************************************************************)
(* The fill call and the extraction of names before and after it.          *)
(***************************************************************************)
\* The names tempfile may give a temporary file, and the mark of a name
\* under which no file exists.
TempNames == {"tmpA", "tmpB", "tmpC", "tmpD"}
NoFile == [container |-> "absent"]

IdleFill ==
    /\ placeholder_map = <<>>
    /\ filled = EmptyDoc
    /\ unfilled = <<>>
    /\ names_before = <<>>
    /\ names_after = <<>>

IdleApply ==
    /\ replacements = <<>>
    /\ applied = EmptyDoc
    /\ reapplied = EmptyDoc

IdleAnalyze ==
    /\ full_text = <<>>
    /\ finish_reason = "stop"
    /\ result_text = <<>>
    /\ result_data = [ok |-> FALSE]
    /\ raised = [type |-> "none", args |-> <<>>]

IdleParse ==
    /\ response_data = <<>>
    /\ document_text = <<>>
    /\ variables = <<>>

IdleRepeat ==
    /\ fill_data = <<>>
    /\ second_fill = [doc |-> EmptyDoc, unfilled |-> <<>>]
    /\ second_apply = EmptyDoc

IdleApi ==
    /\ clock = [year |-> 0, month |-> 0]
    /\ quotations = {}
    /\ invoices = {}
    /\ created = <<>>
    /\ response = [endpoint |-> "none", caller |-> "none", code |-> 0, body |-> "none", of |-> 0]

IdleExtract ==
    /\ blob = [container |-> "none"]
    /\ extraction = [ok |-> FALSE]

IdleWorkers ==
    /\ temp_files = [n \in TempNames |-> NoFile]
    /\ calls = <<>>

IdleRequests ==
    /\ requests = <<>>

IdleScheduler ==
    /\ wall_clock = 0
    /\ scheduled_emails = <<>>
    /\ email_history = <<>>
    /\ process_runs = <<>>
    /\ cancel_returned = {}

InitFill ==
    /\ pc = "start"
    /\ doc \in Docs
    /\ \E cd \in ClientDatas, today \in CurrentDates :
          placeholder_map = _create_placeholder_map(cd, today)
    /\ filled = EmptyDoc
    /\ unfilled = <<>>
    /\ names_before = <<>>
    /\ names_after = <<>>
    /\ IdleApply
    /\ IdleAnalyze
    /\ IdleParse
    /\ IdleRepeat
    /\ IdleApi
    /\ IdleExtract
    /\ IdleWorkers
    /\ IdleRequests
    /\ IdleScheduler

\* fill_template_with_client_data: list(unfilled) lists the set in the order
\* the set iterates, which the language leaves open.
FillTemplate ==
    /\ pc = "start"
    /\ LET r == fill_template_with_client_data(doc, placeholder_map)
       IN /\ filled' = r.doc
          /\ unfilled' \in Orderings(r.unfilled)
    /\ pc' = "filled"
    /\ UNCHANGED <<doc, placeholder_map, names_before, names_after, applyVars, analyzeVars, parseVars, repeatVars, apiVars, extractVars, workerVars, requestVars, schedulerVars>>

\* extract_all_placeholders on the template and on the filled document
ExtractPlaceholders ==
    /\ pc = "filled"
    /\ names_before' = extract_all_placeholders(doc)
    /\ names_after' = extract_all_placeholders(filled)
    /\ pc' = "done"
    /\ UNCHANGED <<doc, placeholder_map, filled, unfilled, applyVars, analyzeVars, parseVars, repeatVars, apiVars, extractVars, workerVars, requestVars, schedulerVars>>

NextFill == FillTemplate \/ ExtractPlaceholders

SpecFill == InitFill /\ [][NextFill]_vars

(***************************************************************************)
(* Properties of the fill call.                                            *)
(***************************************************************************)
IsBrace(c) == c \in {"{", "}"}
BraceFree(s) == \A i \in 1..Len(s) : ~IsBrace(s[i])

\* text holds "{{", one or more characters other than "}", and "}}"
HasToken(text) ==
    \E i, j \in 1..Len(text) :
        /\ i + 2 < j
        /\ j + 1 <= Len(text)
        /\ text[i] = "{" /\ text[i + 1] = "{"
        /\ text[j] = "}" /\ text[j + 1] = "}"
        /\ \A k \in (i + 2)..(j - 1) : text[k] # "}"

\* the name is absent from the value map or mapped to the empty string
Unresolved(n, pmap) == n \notin DOMAIN pmap \/ pmap[n] = <<>>

\* how many times g occurs in s
Occurrences(g, s) == Cardinality({i \in 1..Len(s) : OccursAt(g, s, i)})

\* the number of characters of the paragraph before its run j
RunOffset(p, j) == Len(Concat([i \in 1..(j - 1) |-> p.runs[i].text]))

\* every token of the paragraph's text lies inside one run
TokensWithinRuns(p) ==
    LET ms == placeholder_pattern_finditer(paragraph_text(p))
    IN \A m \in 1..Len(ms) : \E j \in 1..Len(p.runs) :
          /\ RunOffset(p, j) < ms[m].start
          /\ ms[m].end <= RunOffset(p, j) + Len(p.runs[j].text)

\* no token of the paragraph's text has a brace in its name
TokenNamesBraceFree(p) ==
    LET ms == placeholder_pattern_finditer(paragraph_text(p))
    IN \A m \in 1..Len(ms) : BraceFree(ms[m].group1)

ValuesBraceFree(pmap) == \A n \in DOMAIN pmap : BraceFree(pmap[n])

UnresolvedNamesOf(names, pmap) == {n \in Range(names) : Unresolved(n, pmap)}

\* C2 as stated: the names found after the fill are the names found before it
\* that are absent from the value map or mapped to an empty value, whatever the
\* run boundaries are.
C2_NamesAfterFill ==
    pc = "done" => Range(names_after) = UnresolvedNamesOf(names_before, placeholder_map)

\* C2 amended: the same equation, for documents in which every token lies inside
\* one run and has no brace in its name, and value maps whose values hold no brace.
C2_NamesAfterFillWithinRuns ==
    (/\ pc = "done"
     /\ \A i \in 1..Len(AllParagraphs(doc)) :
           /\ TokensWithinRuns(AllParagraphs(doc)[i])
           /\ TokenNamesBraceFree(AllParagraphs(doc)[i])
     /\ ValuesBraceFree(placeholder_map))
    => Range(names_after) = UnresolvedNamesOf(names_before, placeholder_map)

\* a fill of a two-run paragraph that resolved one name and left another
C2_Witness ==
    /\ pc = "done"
    /\ \A i \in 1..Len(AllParagraphs(doc)) :
          /\ TokensWithinRuns(AllParagraphs(doc)[i])
          /\ TokenNamesBraceFree(AllParagraphs(doc)[i])
    /\ ValuesBraceFree(placeholder_map)
    /\ Len(doc.paragraphs[1].runs) = 2
    /\ <<"a">> \in Range(names_before)
    /\ <<"a">> \notin Range(names_after)
    /\ <<"x">> \in Range(names_after)

FormatsOf(ps) == [i \in 1..Len(ps) |-> [j \in 1..Len(ps[i].runs) |-> ps[i].runs[j].fmt]]

\* the document's structure with every run's text left out
ShapeOf(d) ==
    [paragraphs |-> FormatsOf(d.paragraphs),
     tables |-> [t \in 1..Len(d.tables) |->
        [r \in 1..Len(d.tables[t].rows) |->
            [c \in 1..Len(d.tables[t].rows[r].cells) |->
                FormatsOf(d.tables[t].rows[r].cells[c].paragraphs)]]],
     sections |-> [s \in 1..Len(d.sections) |->
        [header |-> FormatsOf(d.sections[s].header),
         footer |-> FormatsOf(d.sections[s].footer)]]]

\* C4: the filled document has the tables, rows, cells, paragraphs and runs of
\* the template, and every run has the formatting it had.
C4_FillKeepsShape == pc # "start" => ShapeOf(filled) = ShapeOf(doc)

\* a fill that changed the text of a run of a two-run paragraph
C4_Witness ==
    /\ pc = "filled"
    /\ Len(doc.paragraphs[1].runs) = 2
    /\ filled.paragraphs[1].runs[2].text # doc.paragraphs[1].runs[2].text
    /\ filled.tables[1].rows[1].cells[1].paragraphs[1]
          # doc.tables[1].rows[1].cells[1].paragraphs[1]

\* C7: a document none of whose paragraphs holds a token is returned with every
\* run's text as it was, and with no unfilled name.
C7_NoTokenNoChange ==
    (/\ pc # "start"
     /\ \A i \in 1..Len(AllParagraphs(doc)) : ~HasToken(paragraph_text(AllParagraphs(doc)[i])))
    => filled = doc /\ unfilled = <<>>

\* a fill of a document whose braces form no token
C7_Witness ==
    /\ pc = "filled"
    /\ \A i \in 1..Len(AllParagraphs(doc)) : ~HasToken(paragraph_text(AllParagraphs(doc)[i]))
    /\ paragraph_text(doc.sections[1].header[1]) = <<"{", "{", "}", "}">>
    /\ placeholder_map[<<"a">>] # <<>>

StrictlyAscending(q) == \A i \in 1..(Len(q) - 1) : str_lt(q[i], q[i + 1])

\* C8: unfilled_names lists each unfilled name once, in ascending order.
C8_UnfilledSorted ==
    pc # "start" => StrictlyAscending(unfilled)

\* C9: extract_all_placeholders lists each name once, in ascending order.
C9_ExtractDistinctSorted ==
    pc = "done" => StrictlyAscending(names_before)

(***************************************************************************)
(* DocumentTextImprover.apply_variable_replacements_to_document and the    *)
(* dictionary apply_ai_suggestions builds for it.                          *)
(***************************************************************************)
\* A dict as the sequence of its <<key, value>> items in insertion order.
\* d[key] = value: a new key is appended, a known key keeps its place.
RECURSIVE dict_set(_, _, _)
dict_set(d, key, value) ==
    IF d = <<>> THEN << <<key, value>> >>
    ELSE IF Head(d)[1] = key THEN << <<key, value>> >> \o Tail(d)
    ELSE <<Head(d)>> \o dict_set(Tail(d), key, value)

\* apply_ai_suggestions: all_replacements[original_text] = replacement for the
\* accepted variables, then for the accepted improvements
RECURSIVE BuildReplacements(_, _)
BuildReplacements(d, accepted) ==
    IF accepted = <<>> THEN d
    ELSE BuildReplacements(dict_set(d, Head(accepted)[1], Head(accepted)[2]), Tail(accepted))

all_replacements(accepted_variables, accepted_improvements) ==
    BuildReplacements(BuildReplacements(<<>>, accepted_variables), accepted_improvements)

\* the loop with str.replace(old, new, 1): only the first occurrence is replaced
RECURSIVE ApplyReplacements_FirstOccurrence(_, _)
ApplyReplacements_FirstOccurrence(modified_text, items) ==
    IF items = <<>> THEN modified_text
    ELSE LET original_value == Head(items)[1]
             replacement == Head(items)[2]
             at == str_find(original_value, modified_text, 1)
         IN IF str_in(original_value, modified_text)
            THEN ApplyReplacements_FirstOccurrence(
                     SubSeq(modified_text, 1, at - 1) \o replacement
                        \o SubSeq(modified_text, at + Len(original_value), Len(modified_text)),
                     Tail(items))
            ELSE ApplyReplacements_FirstOccurrence(modified_text, Tail(items))

\* the loop left after the first key that matched
RECURSIVE ApplyReplacements_FirstKey(_, _)
ApplyReplacements_FirstKey(modified_text, items) ==
    IF items = <<>> THEN modified_text
    ELSE IF str_in(Head(items)[1], modified_text)
         THEN str_replace(modified_text, Head(items)[1], Head(items)[2])
         ELSE ApplyReplacements_FirstKey(modified_text, Tail(items))

\* for original_value, replacement in variable_replacements.items():
\*     if original_value in modified_text: modified_text = modified_text.replace(...)
RECURSIVE ApplyReplacements(_, _)
ApplyReplacements(modified_text, items) ==
    IF items = <<>> THEN modified_text
    ELSE LET original_value == Head(items)[1]
             replacement == Head(items)[2]
         IN IF str_in(original_value, modified_text)
            THEN ApplyReplacements(str_replace(modified_text, original_value, replacement),
                                   Tail(items))
            ELSE ApplyReplacements(modified_text, Tail(items))

\* para.text = text: the paragraph's runs give way to one new run
DefaultFormat == "default"
set_paragraph_text(paragraph, text) == [paragraph EXCEPT !.runs = <<Run(text, DefaultFormat)>>]

\* cell.text: the cell's paragraph texts joined by a newline
cell_text(cell) ==
    str_join(<<"\n">>, [k \in 1..Len(cell.paragraphs) |-> paragraph_text(cell.paragraphs[k])])

\* cell.text = text: the cell's content gives way to one paragraph of one run
set_cell_text(cell, text) ==
    [cell EXCEPT !.paragraphs = <<Paragraph(<<Run(text, DefaultFormat)>>)>>]

apply_to_paragraph(para, items) ==
    LET original_text == paragraph_text(para)
        modified_text == ApplyReplacements(original_text, items)
    IN IF modified_text # original_text THEN set_paragraph_text(para, modified_text) ELSE para

apply_to_cell(cell, items) ==
    LET original_text == cell_text(cell)
        modified_text == ApplyReplacements(original_text, items)
    IN IF modified_text # original_text THEN set_cell_text(cell, modified_text) ELSE cell

\* apply_variable_replacements_to_document: body paragraphs, then table cells;
\* headers and footers are not visited
apply_variable_replacements_to_document(d, items) ==
    [d EXCEPT
        !.paragraphs = [i \in 1..Len(d.paragraphs) |-> apply_to_paragraph(d.paragraphs[i], items)],
        !.tables = [t \in 1..Len(d.tables) |->
            [rows |-> [r \in 1..Len(d.tables[t].rows) |->
                [cells |-> [c \in 1..Len(d.tables[t].rows[r].cells) |->
                    apply_to_cell(d.tables[t].rows[r].cells[c], items)]]]]]]

\* the body paragraph texts and the cell texts, in document order
Cells(d) ==
    Concat([t \in 1..Len(d.tables) |->
        Concat([r \in 1..Len(d.tables[t].rows) |-> d.tables[t].rows[r].cells])])

TextsOfDoc(d) ==
    [i \in 1..Len(d.paragraphs) |-> paragraph_text(d.paragraphs[i])]
        \o [i \in 1..Len(Cells(d)) |-> cell_text(Cells(d)[i])]

(***************************************************************************)
(* Inputs of apply: texts of up to MaxTextLen letters, up to MaxKeys       *)
(* accepted suggestions.                                                   *)
(***************************************************************************)
Letters == {"a", "b"}

RECURSIVE WordsOf(_)
WordsOf(n) ==
    IF n = 0 THEN {<<>>}
    ELSE WordsOf(n - 1) \cup {w \o <<c>> : w \in WordsOf(n - 1), c \in Letters}

OriginalTexts == {<<"a">>, <<"b">>, <<"a", "b">>}
ReplacementTexts == {<<>>, <<"b">>, <<"x">>}
Suggestions == OriginalTexts \X ReplacementTexts

AcceptedLists == UNION {[1..n -> Suggestions] : n \in 1..MaxKeys}

\* a body paragraph of text t (two runs when it has two letters or more), a
\* table with a cell of one paragraph and a cell of two, a header
ApplyDoc(t, u) ==
    [paragraphs |-> <<IF Len(t) >= 2 THEN SplitParagraph(t, 1) ELSE SplitParagraph(t, 0)>>,
     tables |-> << [rows |-> << [cells |->
                     << [paragraphs |-> <<SplitParagraph(u, 0)>>],
                        [paragraphs |-> <<SplitParagraph(u, 0), SplitParagraph(<<"a">>, 0)>>] >>] >>] >>,
     sections |-> << [header |-> <<SplitParagraph(<<"a">>, 0)>>, footer |-> <<>>] >>]

CellWords == {<<"x">>, <<"a", "b">>, <<"a", "a", "b">>}

ApplyDocs == {ApplyDoc(t, u) : t \in WordsOf(MaxTextLen), u \in CellWords}

InitApply ==
    /\ pc = "start"
    /\ doc \in ApplyDocs
    /\ \E accepted \in AcceptedLists :
          \E n \in 0..Len(accepted) :
             replacements = all_replacements(SubSeq(accepted, 1, n),
                                             SubSeq(accepted, n + 1, Len(accepted)))
    /\ applied = EmptyDoc
    /\ reapplied = EmptyDoc
    /\ IdleFill
    /\ IdleAnalyze
    /\ IdleParse
    /\ IdleRepeat
    /\ IdleApi
    /\ IdleExtract
    /\ IdleWorkers
    /\ IdleRequests
    /\ IdleScheduler

\* apply_all_replacements_to_document on the stored template
Apply ==
    /\ pc = "start"
    /\ applied' = apply_variable_replacements_to_document(doc, replacements)
    /\ pc' = "applied"
    /\ UNCHANGED <<doc, replacements, reapplied, fillVars, analyzeVars, parseVars, repeatVars, apiVars, extractVars, workerVars, requestVars, schedulerVars>>

\* the same map applied to the result
ApplyAgain ==
    /\ pc = "applied"
    /\ reapplied' = apply_variable_replacements_to_document(applied, replacements)
    /\ pc' = "reapplied"
    /\ UNCHANGED <<doc, replacements, applied, fillVars, analyzeVars, parseVars, repeatVars, apiVars, extractVars, workerVars, requestVars, schedulerVars>>

NextApply == Apply \/ ApplyAgain

SpecApply == InitApply /\ [][NextApply]_vars

(***************************************************************************)
(* Properties of apply.                                                    *)
(***************************************************************************)
Keys(items) == {items[i][1] : i \in 1..Len(items)}
Values(items) == {items[i][2] : i \in 1..Len(items)}

\* x and y overlap: one occurs in the other, or a non-empty end of one is the
\* start of the other
EndIsStart(x, y) ==
    \E n \in 1..Len(x) : n <= Len(y) /\ SubSeq(x, Len(x) - n + 1, Len(x)) = SubSeq(y, 1, n)

Overlap(x, y) == str_in(x, y) \/ str_in(y, x) \/ EndIsStart(x, y) \/ EndIsStart(y, x)

NoKeyOverlapsValue(items) ==
    \A k \in Keys(items), v \in Values(items) : ~Overlap(k, v)

NoKeyOverlapsKey(items) ==
    \A k1, k2 \in Keys(items) : k1 # k2 => ~Overlap(k1, k2)

\* C1 as stated: when no value contains the key it replaces, a second
\* application leaves every paragraph and cell text as the first left it.
C1_Idempotent ==
    (/\ pc = "reapplied"
     /\ \A i \in 1..Len(replacements) : ~str_in(replacements[i][1], replacements[i][2]))
    => TextsOfDoc(reapplied) = TextsOfDoc(applied)

\* C1 amended: the same, when no key of the map overlaps a value of the map.
C1_IdempotentNoOverlap ==
    (pc = "reapplied" /\ NoKeyOverlapsValue(replacements))
    => TextsOfDoc(reapplied) = TextsOfDoc(applied)

\* a two-key map without overlap applied twice to a document it changes
C1_Witness ==
    /\ pc = "reapplied"
    /\ NoKeyOverlapsValue(replacements)
    /\ Len(replacements) = 2
    /\ TextsOfDoc(applied)[1] # TextsOfDoc(doc)[1]
    /\ TextsOfDoc(applied)[3] # TextsOfDoc(doc)[3]

\* for every key: each text that held the key holds its value, and no text
\* holds the key
KeysReplaced(before, after, items) ==
    \A i \in 1..Len(items) :
        /\ \A n \in 1..Len(TextsOfDoc(before)) :
              str_in(items[i][1], TextsOfDoc(before)[n])
                 => str_in(items[i][2], TextsOfDoc(after)[n])
        /\ \A n \in 1..Len(TextsOfDoc(after)) : ~str_in(items[i][1], TextsOfDoc(after)[n])

\* C5 as stated: after apply every text that held a key holds its value and no
\* text holds a key, whatever the keys are.
C5_AllKeysReplaced ==
    pc # "start" => KeysReplaced(doc, applied, replacements)

\* C5 amended: the same, when no key of the map overlaps a value or another key.
C5_AllKeysReplacedNoOverlap ==
    (/\ pc # "start"
     /\ NoKeyOverlapsValue(replacements)
     /\ NoKeyOverlapsKey(replacements))
    => KeysReplaced(doc, applied, replacements)

\* a two-key map without overlap applied to a paragraph holding both keys
C5_Witness ==
    /\ pc = "applied"
    /\ NoKeyOverlapsValue(replacements)
    /\ NoKeyOverlapsKey(replacements)
    /\ Len(replacements) = 2
    /\ \A i \in 1..2 : str_in(replacements[i][1], TextsOfDoc(doc)[1])
    /\ \A i \in 1..2 : str_in(replacements[i][2], TextsOfDoc(applied)[1])

(***************************************************************************)
(* AITemplateAnalyzer: json.loads and _repair_truncated_json.              *)
(* A parsed value is a node: its kind, the places of its first and last    *)
(* character in the text, and its content (the text of a string or number, *)
(* the keys and values of an object, the elements of an array).            *)
(***************************************************************************)
Digits == {"1", "2"}
IsJsonSpace(c) == c \in {" ", "\n", "\t", "\r"}

Node(kind, s, e, text, keys, items) ==
    [kind |-> kind, s |-> s, e |-> e, text |-> text, keys |-> keys, items |-> items]

NoNode == Node("none", 0, 0, <<>>, <<>>, <<>>)
ParseError == [ok |-> FALSE, next |-> 0, node |-> NoNode]
Parsed(node, next) == [ok |-> TRUE, next |-> next, node |-> node]

\* the first index at or after i that holds no white space
RECURSIVE SkipSpace(_, _)
SkipSpace(text, i) ==
    IF i <= Len(text) /\ IsJsonSpace(text[i]) THEN SkipSpace(text, i + 1) ELSE i

\* the index of the first quote at or after i, 0 when there is none
RECURSIVE FirstQuote(_, _)
FirstQuote(text, i) ==
    IF i > Len(text) THEN 0
    ELSE IF text[i] = "\"" THEN i
    ELSE FirstQuote(text, i + 1)

\* the first index at or after i that holds no digit
RECURSIVE EndOfDigits(_, _)
EndOfDigits(text, i) ==
    IF i <= Len(text) /\ text[i] \in Digits THEN EndOfDigits(text, i + 1) ELSE i

\* a string literal at i (the texts of the model hold no backslash)
ParseString(text, i) ==
    LET j == FirstQuote(text, i + 1)
    IN IF j = 0 \/ \E k \in (i + 1)..(j - 1) : text[k] \in {"\n", "\t", "\r"}
       THEN ParseError
       ELSE Parsed(Node("str", i, j, SubSeq(text, i + 1, j - 1), <<>>, <<>>), j + 1)

ParseNumber(text, i) ==
    LET j == EndOfDigits(text, i)
    IN Parsed(Node("num", i, j - 1, SubSeq(text, i, j - 1), <<>>, <<>>), j)

\* the place of key in keys, 0 when it is not there
KeyIndex(keys, key) ==
    IF \E i \in 1..Len(keys) : keys[i] = key
    THEN CHOOSE i \in 1..Len(keys) : keys[i] = key
    ELSE 0

RECURSIVE ParseValue(_, _)
RECURSIVE ParseElements(_, _, _, _)
RECURSIVE ParseMembers(_, _, _, _, _)

\* the elements of an array opened at `open`, the next one starting at i
ParseElements(text, open, i, items) ==
    LET r == ParseValue(text, i)
        k == SkipSpace(text, r.next)
    IN IF ~r.ok \/ k > Len(text) THEN ParseError
       ELSE IF text[k] = "]"
            THEN Parsed(Node("arr", open, k, <<>>, <<>>, Append(items, r.node)), k + 1)
       ELSE IF text[k] = ","
            THEN ParseElements(text, open, SkipSpace(text, k + 1), Append(items, r.node))
       ELSE ParseError

\* the members of an object opened at `open`, the next key starting at i;
\* a key met again keeps its place and takes the new value
ParseMembers(text, open, i, keys, items) ==
    IF i > Len(text) \/ text[i] # "\"" THEN ParseError
    ELSE LET key == ParseString(text, i)
             colon == SkipSpace(text, key.next)
         IN IF ~key.ok \/ colon > Len(text) \/ text[colon] # ":" THEN ParseError
            ELSE LET r == ParseValue(text, SkipSpace(text, colon + 1))
                     k == SkipSpace(text, r.next)
                     at == KeyIndex(keys, key.node.text)
                     keys2 == IF at = 0 THEN Append(keys, key.node.text) ELSE keys
                     items2 == IF at = 0 THEN Append(items, r.node)
                               ELSE [items EXCEPT ![at] = r.node]
                 IN IF ~r.ok \/ k > Len(text) THEN ParseError
                    ELSE IF text[k] = "}"
                         THEN Parsed(Node("obj", open, k, <<>>, keys2, items2), k + 1)
                    ELSE IF text[k] = ","
                         THEN ParseMembers(text, open, SkipSpace(text, k + 1), keys2, items2)
                    ELSE ParseError

\* the value that starts at i
ParseValue(text, i) ==
    IF i > Len(text) THEN ParseError
    ELSE IF text[i] = "{"
         THEN LET j == SkipSpace(text, i + 1)
              IN IF j <= Len(text) /\ text[j] = "}"
                 THEN Parsed(Node("obj", i, j, <<>>, <<>>, <<>>), j + 1)
                 ELSE ParseMembers(text, i, j, <<>>, <<>>)
    ELSE IF text[i] = "["
         THEN LET j == SkipSpace(text, i + 1)
              IN IF j <= Len(text) /\ text[j] = "]"
                 THEN Parsed(Node("arr", i, j, <<>>, <<>>, <<>>), j + 1)
                 ELSE ParseElements(text, i, j, <<>>)
    ELSE IF text[i] = "\"" THEN ParseString(text, i)
    ELSE IF text[i] \in Digits THEN ParseNumber(text, i)
    ELSE ParseError

\* json.loads(text): one value, white space around it, nothing after it
json_loads(text) ==
    LET r == ParseValue(text, SkipSpace(text, 1))
    IN IF r.ok /\ SkipSpace(text, r.next) = Len(text) + 1 THEN r ELSE ParseError

\* text.count(c)
str_count(text, c) == Cardinality({i \in 1..Len(text) : text[i] = c})

\* text.rfind(sub): the last index where sub occurs, 0 when absent
str_rfind(sub, text) ==
    IF str_in(sub, text)
    THEN CHOOSE i \in 1..Len(text) :
            /\ OccursAt(sub, text, i)
            /\ \A j \in (i + 1)..Len(text) : ~OccursAt(sub, text, j)
    ELSE 0

Repeat(c, n) == [i \in 1..n |-> c]
Max(a, b) == IF a >= b THEN a ELSE b

\* the text cut after the last "}," (else the last "}]"), the "}" kept
TrimToLastComplete(repaired) ==
    LET last_complete ==
            IF str_rfind(<<"}", ",">>, repaired) # 0 THEN str_rfind(<<"}", ",">>, repaired)
            ELSE str_rfind(<<"}", "]">>, repaired)
    IN IF last_complete # 0 THEN SubSeq(repaired, 1, last_complete) ELSE repaired

\* the open brackets, then the open braces, closed
CloseOpen(repaired) ==
    repaired
        \o Repeat("]", Max(0, str_count(repaired, "[") - str_count(repaired, "]")))
        \o Repeat("}", Max(0, str_count(repaired, "{") - str_count(repaired, "}")))

\* _repair_truncated_json: the parse of the text as it is, else of the text
\* trimmed and closed; [ok |-> FALSE] stands for the JSONDecodeError raised
_repair_truncated_json(text) ==
    IF json_loads(text).ok
    THEN [ok |-> TRUE, data |-> json_loads(text).node, repaired |-> text]
    ELSE LET repaired == CloseOpen(TrimToLastComplete(str_rstrip(text)))
         IN IF json_loads(repaired).ok
            THEN [ok |-> TRUE, data |-> json_loads(repaired).node, repaired |-> repaired]
            ELSE [ok |-> FALSE, data |-> NoNode, repaired |-> repaired]

(***************************************************************************)
(* Responses of the service and the places they may be cut at.             *)
(***************************************************************************)
Responses ==
    { \* two entries, as in the example of a list cut short: {"v":[{"n":"a"}, {"n":"b"}]}
      <<"{", "\"", "v", "\"", ":", "[", "{", "\"", "n", "\"", ":", "\"", "a", "\"", "}", ",", " ", "{", "\"", "n", "\"", ":", "\"", "b", "\"", "}", "]", "}">>,
      \* a number before the list: {"c":12,"v":[{"n":"a"}]}
      <<"{", "\"", "c", "\"", ":", "1", "2", ",", "\"", "v", "\"", ":", "[", "{", "\"", "n", "\"", ":", "\"", "a", "\"", "}", "]", "}">>,
      \* a list of plain values: {"s":["a",12]}
      <<"{", "\"", "s", "\"", ":", "[", "\"", "a", "\"", ",", "1", "2", "]", "}">>,
      \* a list of lists: {"v":[[{"n":"a"},{"n":"b"}]]}
      <<"{", "\"", "v", "\"", ":", "[", "[", "{", "\"", "n", "\"", ":", "\"", "a", "\"", "}", ",", "{", "\"", "n", "\"", ":", "\"", "b", "\"", "}", "]", "]", "}">>,
      \* an entry holding an object: {"v":[{"n":"a","m":{"x":1},"d":"b"}]}
      <<"{", "\"", "v", "\"", ":", "[", "{", "\"", "n", "\"", ":", "\"", "a", "\"", ",", "\"", "m", "\"", ":", "{", "\"", "x", "\"", ":", "1", "}", ",", "\"", "d", "\"", ":", "\"", "b", "\"", "}", "]", "}">>,
      \* a string holding "},": {"v":[{"n":"},"}],"s":["b"]}
      <<"{", "\"", "v", "\"", ":", "[", "{", "\"", "n", "\"", ":", "\"", "}", ",", "\"", "}", "]", ",", "\"", "s", "\"", ":", "[", "\"", "b", "\"", "]", "}">> }

\* no exception
NoException == [type |-> "none", args |-> <<>>]

\* str(e) of the JSONDecodeError that _repair_truncated_json raises
CouldNotRepair == "Could not repair truncated AI response: line 1 column 1 (char 0)"

\* str(e) of a JSONDecodeError that json.loads raises, and of an exception of
\* the client (transport, authentication)
JsonMessages == {"Expecting value: line 1 column 1 (char 0)"}
ServiceMessages == {"Connection error.", "Incorrect API key provided"}

\* except json.JSONDecodeError as e: raise Exception(f"AI analysis failed: AI returned invalid JSON - {str(e)}")
InvalidJson(message) ==
    [type |-> "Exception", args |-> <<"AI analysis failed: AI returned invalid JSON - ", message>>]

\* except Exception as e: raise Exception(f"AI analysis failed: {str(e)}")
AnalysisFailed(message) ==
    [type |-> "Exception", args |-> <<"AI analysis failed: ", message>>]

\* the call is about to be made; full_text is the response the service would
\* give in full
InitAnalyze ==
    /\ pc = "request"
    /\ full_text \in Responses
    /\ result_text = <<>>
    /\ finish_reason = "stop"
    /\ result_data = [ok |-> FALSE]
    /\ raised = NoException
    /\ doc = EmptyDoc
    /\ IdleFill
    /\ IdleApply
    /\ IdleParse
    /\ IdleRepeat
    /\ IdleApi
    /\ IdleExtract
    /\ IdleWorkers
    /\ IdleRequests
    /\ IdleScheduler

\* client.chat.completions.create returns: the service stopped after any
\* character of the response; it reports "length" when its token limit cut the
\* response, and a response that ends early for another reason is reported
\* with another finish_reason
CreateCompletion ==
    /\ pc = "request"
    /\ \E n \in 1..Len(full_text) :
          /\ result_text' = SubSeq(full_text, 1, n)
          /\ finish_reason' \in IF n < Len(full_text) THEN {"length", "stop"} ELSE {"stop"}
    /\ pc' = "received"
    /\ UNCHANGED <<doc, fillVars, applyVars, parseVars, full_text, result_data, raised, repeatVars, apiVars, extractVars, workerVars, requestVars, schedulerVars>>

\* client.chat.completions.create raises
CreateCompletionFails ==
    /\ pc = "request"
    /\ \E m \in ServiceMessages : raised' = AnalysisFailed(m)
    /\ pc' = "failed"
    /\ UNCHANGED <<doc, fillVars, applyVars, parseVars, full_text, finish_reason,
                   result_text, result_data, repeatVars, apiVars, extractVars, workerVars, requestVars, schedulerVars>>

\* analyze_document_for_template, finish_reason == "length"
RepairTruncated ==
    /\ pc = "received"
    /\ finish_reason = "length"
    /\ result_data' = _repair_truncated_json(result_text)
    /\ raised' = IF result_data'.ok THEN NoException ELSE InvalidJson(CouldNotRepair)
    /\ pc' = IF result_data'.ok THEN "parsed" ELSE "failed"
    /\ UNCHANGED <<doc, fillVars, applyVars, parseVars, full_text, finish_reason, result_text, repeatVars, apiVars, extractVars, workerVars, requestVars, schedulerVars>>

\* analyze_document_for_template, any other finish_reason: json.loads
ParseComplete ==
    /\ pc = "received"
    /\ finish_reason # "length"
    /\ result_data' = [ok |-> json_loads(result_text).ok,
                       data |-> json_loads(result_text).node,
                       repaired |-> result_text]
    /\ \E m \in JsonMessages :
          raised' = IF result_data'.ok THEN NoException ELSE InvalidJson(m)
    /\ pc' = IF result_data'.ok THEN "parsed" ELSE "failed"
    /\ UNCHANGED <<doc, fillVars, applyVars, parseVars, full_text, finish_reason, result_text, repeatVars, apiVars, extractVars, workerVars, requestVars, schedulerVars>>

NextAnalyze == CreateCompletion \/ CreateCompletionFails \/ RepairTruncated \/ ParseComplete

SpecAnalyze == InitAnalyze /\ [][NextAnalyze]_vars

(***************************************************************************)
(* Properties of the repair.                                               *)
(***************************************************************************)
\* the places <<first, last>> of the elements of every array of a value
RECURSIVE ArrayElementSpans(_)
ArrayElementSpans(node) ==
    UNION {ArrayElementSpans(node.items[i]) : i \in 1..Len(node.items)}
        \cup (IF node.kind = "arr"
              THEN {<<node.items[i].s, node.items[i].e>> : i \in 1..Len(node.items)}
              ELSE {})

\* C6: when a cut-off response is repaired, every array element of the result
\* is an array element of the response that was complete in the received text:
\* it stands at the same place and ends inside the received text.
C6_OnlyCompleteElements ==
    (pc = "parsed" /\ finish_reason = "length" /\ result_data.ok)
    => \A span \in ArrayElementSpans(result_data.data) :
          /\ span \in ArrayElementSpans(json_loads(full_text).node)
          /\ span[2] <= Len(result_text)

(***************************************************************************)
(* AITemplateAnalyzer._parse_ai_response: the variable list.               *)
(* A response entry (var_data) is a function from the fields it carries to *)
(* their values; a confidence is counted in tenths.  An unset offset       *)
(* (None) is the empty sequence, a set one the one-element sequence.       *)
(***************************************************************************)
None == <<>>
DefaultConfidence == 5

\* d.get(key, default)
dict_get(d, key, default) == IF key \in DOMAIN d THEN d[key] ELSE default

\* the lower-case form re.IGNORECASE compares by
Lower(c) ==
    CASE c = "A" -> "a"
      [] c = "B" -> "b"
      [] c = "H" -> "h"
      [] c = "N" -> "n"
      [] c = "S" -> "s"
      [] c = "T" -> "t"
      [] OTHER -> c

str_lower(text) == [i \in 1..Len(text) |-> Lower(text[i])]

re_search_exact(sub, text) == str_find(sub, text, 1)

\* re.search(re.escape(sub), text, re.IGNORECASE): the first place, counted
\* from 1, where sub occurs in text whatever the case; 0 when there is none
re_search_ignorecase(sub, text) == str_find(str_lower(sub), str_lower(text), 1)

\* the TemplateVariable built from one entry of the response
TemplateVariable(var_data, text) ==
    LET original_text_val == dict_get(var_data, "original_text", <<>>)
        at == IF original_text_val # <<>>
              THEN re_search_ignorecase(original_text_val, text)
              ELSE 0
    IN [name |-> dict_get(var_data, "name", <<>>),
        original_text |-> original_text_val,
        confidence |-> dict_get(var_data, "confidence", DefaultConfidence),
        start_position |-> IF at # 0 THEN <<at - 1>> ELSE None,
        end_position |-> IF at # 0 THEN <<at - 1 + Len(original_text_val)>> ELSE None]

\* the key variables.sort orders by
SortKey(x) == IF x.start_position # None THEN x.start_position[1] ELSE 0

\* list.sort(key=...): ascending by key, entries of equal key in their order
RECURSIVE sort_by_key(_)
sort_by_key(list) ==
    IF list = <<>> THEN <<>>
    ELSE LET rest == sort_by_key(SubSeq(list, 1, Len(list) - 1))
             x == list[Len(list)]
             before == {i \in 1..Len(rest) : SortKey(rest[i]) <= SortKey(x)}
             n == Cardinality(before)
         IN SubSeq(rest, 1, n) \o <<x>> \o SubSeq(rest, n + 1, Len(rest))

BuildVariables_DropLowConfidence(data, text) ==
    LET entries == dict_get(data, "variables", <<>>)
        built == [i \in 1..Len(entries) |-> TemplateVariable(entries[i], text)]
    IN SelectSeq(built, LAMBDA v : v.confidence >= DefaultConfidence)

\* the loop of _parse_ai_response: one variable for each entry, in order
BuildVariables(data, text) ==
    LET entries == dict_get(data, "variables", <<>>)
    IN [i \in 1..Len(entries) |-> TemplateVariable(entries[i], text)]

\* the variables of the TemplateAnalysisResult
_parse_ai_response(data, text) == sort_by_key(BuildVariables(data, text))

(***************************************************************************)
(* Responses and documents the parse is run on.                            *)
(***************************************************************************)
DocumentTexts == {<<"b", "A", "b">>, <<"x", "B">>, <<"a">>}

EntryTexts == {<<>>, <<"a">>, <<"b">>, <<"a", "b">>}
Confidences == {1, 9}

\* an entry carries a name; it may lack its original_text and its confidence
Entries ==
    {[name |-> <<"n">>, original_text |-> t, confidence |-> c] : t \in EntryTexts, c \in Confidences}
        \cup {[name |-> <<"n">>, original_text |-> t] : t \in EntryTexts}
        \cup {[name |-> <<"n">>, confidence |-> c] : c \in Confidences}

EntryLists == UNION {[1..n -> Entries] : n \in 0..MaxVariables}

ResponseDatas ==
    {[variables |-> l] : l \in EntryLists} \cup {[template_type |-> <<"x">>]}

InitParse ==
    /\ pc = "response"
    /\ response_data \in ResponseDatas
    /\ document_text \in DocumentTexts
    /\ variables = <<>>
    /\ doc = EmptyDoc
    /\ IdleFill
    /\ IdleApply
    /\ IdleAnalyze
    /\ IdleRepeat
    /\ IdleApi
    /\ IdleExtract
    /\ IdleWorkers
    /\ IdleRequests
    /\ IdleScheduler

ParseAiResponse ==
    /\ pc = "response"
    /\ variables' = _parse_ai_response(response_data, document_text)
    /\ pc' = "result"
    /\ UNCHANGED <<doc, fillVars, applyVars, analyzeVars, response_data, document_text, repeatVars, apiVars, extractVars, workerVars, requestVars, schedulerVars>>

NextParse == ParseAiResponse

SpecParse == InitParse /\ [][NextParse]_vars

(***************************************************************************)
(* Properties of the variable list.                                        *)
(***************************************************************************)
\* what a variable of the result says of the entry it was made from
EntryOf(v) == [name |-> v.name, original_text |-> v.original_text, confidence |-> v.confidence]

\* what an entry of the response says, its missing fields by their defaults
EntryGiven(var_data) ==
    [name |-> dict_get(var_data, "name", <<>>),
     original_text |-> dict_get(var_data, "original_text", <<>>),
     confidence |-> dict_get(var_data, "confidence", DefaultConfidence)]

ResponseEntries == dict_get(response_data, "variables", <<>>)

OffsetOrZero(v) == IF v.start_position = None THEN 0 ELSE v.start_position[1]

\* C10: the variable list holds each entry of the response as often as the
\* response does, none dropped whatever its confidence, and is ordered
\* ascending by start offset, an unset offset counting as 0.
C10_PermutationSortedByOffset ==
    pc = "result" =>
        /\ Len(variables) = Len(ResponseEntries)
        /\ \A e \in {EntryGiven(ResponseEntries[i]) : i \in 1..Len(ResponseEntries)} :
              Cardinality({i \in 1..Len(variables) : EntryOf(variables[i]) = e})
                  = Cardinality({i \in 1..Len(ResponseEntries) : EntryGiven(ResponseEntries[i]) = e})
        /\ \A i, j \in 1..Len(variables) :
              i < j => OffsetOrZero(variables[i]) <= OffsetOrZero(variables[j])

\* a response of three entries out of order: one of low confidence, one with
\* no offset, one found further on in the document
C10_Witness ==
    /\ pc = "result"
    /\ Len(variables) = MaxVariables
    /\ \E i \in 1..Len(variables) : variables[i].confidence < DefaultConfidence
    /\ \E i \in 1..Len(variables) : variables[i].start_position = None
    /\ \E i \in 1..Len(variables) : OffsetOrZero(variables[i]) > 0
    /\ variables # BuildVariables(response_data, document_text)

\* sub stands in text at place p (counted from 1), letters compared whatever
\* their case
OccursIgnoringCase(sub, text, p) ==
    /\ p + Len(sub) - 1 <= Len(text)
    /\ \A k \in 1..Len(sub) : Lower(sub[k]) = Lower(text[p + k - 1])

OccurrencesIgnoringCase(sub, text) ==
    {p \in 1..(Len(text) + 1) : OccursIgnoringCase(sub, text, p)}

\* the offsets, counted from 0, the claim gives a variable of the result
OffsetsAsClaimed(v, text) ==
    IF OccurrencesIgnoringCase(v.original_text, text) # {}
    THEN LET first == CHOOSE p \in OccurrencesIgnoringCase(v.original_text, text) :
                         \A q \in OccurrencesIgnoringCase(v.original_text, text) : p <= q
         IN /\ v.start_position = <<first - 1>>
            /\ v.end_position = <<first - 1 + Len(v.original_text)>>
    ELSE /\ v.start_position = None
         /\ v.end_position = None

\* C11 as written: every variable of the result whose original_text occurs in
\* the document text ignoring case has the offsets of the first occurrence,
\* every other one has both offsets unset.
C11_OffsetsOfFirstOccurrence ==
    pc = "result" =>
        \A i \in 1..Len(variables) : OffsetsAsClaimed(variables[i], document_text)

\* C11: every variable of the result whose original_text is not empty has the
\* offsets of its first occurrence in the document text ignoring case, or both
\* offsets unset when it does not occur; a variable whose original_text is
\* empty or missing has both offsets unset.
C11_OffsetsOfFirstOccurrenceNonEmpty ==
    pc = "result" =>
        \A i \in 1..Len(variables) :
            IF variables[i].original_text # <<>>
            THEN OffsetsAsClaimed(variables[i], document_text)
            ELSE variables[i].start_position = None /\ variables[i].end_position = None

\* a result with a text found in another case after the start of the
\* document, a text that is not found and an empty text
C11_Witness ==
    /\ pc = "result"
    /\ \E i \in 1..Len(variables) :
          /\ variables[i].start_position # None
          /\ variables[i].start_position[1] > 0
          /\ ~str_in(variables[i].original_text, document_text)
    /\ \E i \in 1..Len(variables) :
          /\ variables[i].original_text # <<>>
          /\ variables[i].start_position = None
    /\ \E i \in 1..Len(variables) : variables[i].original_text = <<>>

(***************************************************************************)
(* Properties of the failures of the analysis.                             *)
(***************************************************************************)
\* C12: when the service signals truncation and the repair fails, the call
\* fails with an error of kind AIResponseTruncatedError, a kind of its own,
\* that carries the response text as it was received.
C12_TruncatedErrorCarriesPayload ==
    (pc = "failed" /\ finish_reason = "length") =>
        /\ raised.type = "AIResponseTruncatedError"
        /\ "payload" \in DOMAIN raised
        /\ raised.payload = result_text

(***************************************************************************)
(* Properties of the structure apply leaves.                               *)
(***************************************************************************)
\* the numbers of body paragraphs, tables, rows and cells of a document, and
\* of the paragraphs of each cell
StructureOf(d) ==
    [paragraphs |-> Len(d.paragraphs),
     tables |-> [t \in 1..Len(d.tables) |->
        [r \in 1..Len(d.tables[t].rows) |->
            [c \in 1..Len(d.tables[t].rows[r].cells) |->
                Len(d.tables[t].rows[r].cells[c].paragraphs)]]]]

\* C13: the document apply returns has as many body paragraphs, tables, rows
\* and cells as the document it was given, and every cell has as many
\* paragraphs as it had.
C13_ApplyKeepsStructure == pc # "start" => StructureOf(applied) = StructureOf(doc)

(***************************************************************************)
(* The same call made twice: two fill calls on one template with the same  *)
(* data, then two apply calls on it with the same replacements.  Each call *)
(* reads the clock and lists its set on its own; the two calls may run on  *)
(* different days and in different processes of the server.                *)
(***************************************************************************)
\* the texts of the paragraphs: a date token, a data token, an unknown token
RepeatTexts ==
    {<<"{", "{", "d", "}", "}">>, <<"{", "{", "a", "}", "}">>,
     <<"{", "{", "x", "}", "}">>, <<"a">>}

RepeatDocs ==
    {DocWith("body", SplitParagraph(t, 0), SplitParagraph(u, 0)) : t, u \in RepeatTexts}

\* datetime.now().strftime('%d/%m/%Y') on the day of a call
CallDates == {<<"1">>, <<"2">>}

RepeatReplacements == {<<<< <<"a">>, <<"b">> >>>>, <<<< <<"a">>, <<"b">> >>, << <<"b">>, <<"x">> >>>>}

InitRepeat ==
    /\ pc = "start"
    /\ doc \in RepeatDocs
    /\ fill_data \in ClientDatas
    /\ replacements \in RepeatReplacements
    /\ placeholder_map = <<>>
    /\ filled = EmptyDoc
    /\ unfilled = <<>>
    /\ names_before = <<>>
    /\ names_after = <<>>
    /\ applied = EmptyDoc
    /\ reapplied = EmptyDoc
    /\ second_fill = [doc |-> EmptyDoc, unfilled |-> <<>>]
    /\ second_apply = EmptyDoc
    /\ IdleAnalyze
    /\ IdleParse
    /\ IdleApi
    /\ IdleExtract
    /\ IdleWorkers
    /\ IdleRequests
    /\ IdleScheduler

\* the first fill_template_with_client_data(template, data)
FillFirst ==
    /\ pc = "start"
    /\ \E today \in CallDates :
          /\ placeholder_map' = _create_placeholder_map(fill_data, today)
          /\ LET r == fill_template_with_client_data(doc, placeholder_map')
             IN /\ filled' = r.doc
                /\ unfilled' \in Orderings(r.unfilled)
    /\ pc' = "filled once"
    /\ UNCHANGED <<doc, names_before, names_after, applyVars, analyzeVars, parseVars, repeatVars, apiVars, extractVars, workerVars, requestVars, schedulerVars>>

\* the second fill_template_with_client_data(template, data), on the same day
\* or a later one
FillSecond ==
    /\ pc = "filled once"
    /\ \E today \in CallDates :
          /\ ~str_lt(today, placeholder_map[<<"d">>])
          /\ LET r == fill_template_with_client_data(doc, _create_placeholder_map(fill_data, today))
             IN \E order \in Orderings(r.unfilled) :
                   second_fill' = [doc |-> r.doc, unfilled |-> order]
    /\ pc' = "filled twice"
    /\ UNCHANGED <<doc, fillVars, applyVars, analyzeVars, parseVars, fill_data, second_apply, apiVars, extractVars, workerVars, requestVars, schedulerVars>>

\* the first apply_variable_replacements_to_document(template, replacements)
ApplyFirst ==
    /\ pc = "filled twice"
    /\ applied' = apply_variable_replacements_to_document(doc, replacements)
    /\ pc' = "applied once"
    /\ UNCHANGED <<doc, replacements, reapplied, fillVars, analyzeVars, parseVars, repeatVars, apiVars, extractVars, workerVars, requestVars, schedulerVars>>

\* the second apply_variable_replacements_to_document(template, replacements)
ApplySecond ==
    /\ pc = "applied once"
    /\ second_apply' = apply_variable_replacements_to_document(doc, replacements)
    /\ pc' = "applied twice"
    /\ UNCHANGED <<doc, fillVars, applyVars, analyzeVars, parseVars, fill_data, second_fill, apiVars, extractVars, workerVars, requestVars, schedulerVars>>

NextRepeat == FillFirst \/ FillSecond \/ ApplyFirst \/ ApplySecond

SpecRepeat == InitRepeat /\ [][NextRepeat]_vars

\* the texts of every paragraph of a document, headers and footers included
AllTextsOf(d) == [i \in 1..Len(AllParagraphs(d)) |-> paragraph_text(AllParagraphs(d)[i])]

\* C14: two fill calls on the same template with the same data return the same
\* texts and the same list of unfilled names in the same order, and two apply
\* calls on the same document with the same replacements return the same texts.
C14_SameCallSameResult ==
    /\ pc \in {"filled twice", "applied once", "applied twice"} =>
          /\ AllTextsOf(second_fill.doc) = AllTextsOf(filled)
          /\ second_fill.unfilled = unfilled
    /\ pc = "applied twice" => TextsOfDoc(second_apply) = TextsOfDoc(applied)

(***************************************************************************)
(* The quotation and invoice endpoints (api/quotations.py, api/invoices.py) *)
(* over the quotation records, their files and the invoice records.        *)
(***************************************************************************)
DigitChars == <<"0", "1", "2", "3", "4", "5", "6", "7", "8", "9">>

\* str(n) for a natural number
RECURSIVE int_str(_)
int_str(n) ==
    IF n < 10 THEN <<DigitChars[n + 1]>>
    ELSE int_str(n \div 10) \o <<DigitChars[(n % 10) + 1]>>

\* f"{n:0{width}d}"
format_0d(n, width) == Repeat("0", Max(0, width - Len(int_str(n)))) \o int_str(n)

DigitValue(c) == CHOOSE d \in 0..9 : DigitChars[d + 1] = c

\* int(text) for a text of digits
RECURSIVE int_of(_)
int_of(text) ==
    IF text = <<>> THEN 0
    ELSE 10 * int_of(SubSeq(text, 1, Len(text) - 1)) + DigitValue(text[Len(text)])

\* text.split(sep)[-1]
split_last(text, sep) ==
    IF str_rfind(sep, text) = 0 THEN text
    ELSE SubSeq(text, str_rfind(sep, text) + Len(sep), Len(text))

\* text.startswith(prefix), the test LIKE 'prefix%' makes
startswith(text, prefix) == OccursAt(prefix, text, 1)

\* text[i:j], places counted from 0
slice(text, i, j) == SubSeq(text, i + 1, IF j <= Len(text) THEN j ELSE Len(text))

\* generate_quotation_number: "Q-<year>-" and, in four digits, one more than
\* the number of the greatest quotation number of the year, 1 when none
generate_quotation_number(db, now) ==
    LET prefix == <<"Q", "-">> \o int_str(now.year) \o <<"-">>
        of_year == {q \in db : startswith(q.quotation_number, prefix)}
    IN IF of_year # {}
       THEN LET latest == CHOOSE q \in of_year :
                              \A o \in of_year : ~str_lt(q.quotation_number, o.quotation_number)
                last_number == int_of(split_last(latest.quotation_number, <<"-">>))
            IN prefix \o format_0d(last_number + 1, 4)
       ELSE prefix \o format_0d(1, 4)

\* who sends a request: no token, a token that does not decode, the token of
\* a user of the given role
Callers == {"anonymous", "invalid token", "user", "admin", "superadmin"}

\* oauth2_scheme and get_current_user: the code the request is turned down
\* with, 0 when it is let through
get_current_user(caller) ==
    IF caller = "anonymous" THEN 401
    ELSE IF caller = "invalid token" THEN 400
    ELSE 0

\* require_admin_or_superadmin
require_admin_or_superadmin(caller) ==
    IF get_current_user(caller) # 0 THEN get_current_user(caller)
    ELSE IF caller \notin {"admin", "superadmin"} THEN 403
    ELSE 0

Response(endpoint, caller, code, body, of) ==
    [endpoint |-> endpoint, caller |-> caller, code |-> code, body |-> body, of |-> of]

\* the id the database gives the next record of a table
NextId(table) == IF table = {} THEN 1 ELSE 1 + CHOOSE n \in {r.id : r \in table} : \A r \in table : r.id <= n

Statuses == {"pending", "accepted", "rejected"}

\* the months the clock goes through
Months == <<[year |-> 2025, month |-> 12], [year |-> 2026, month |-> 1]>>

InitApi ==
    /\ pc = "serving"
    /\ clock = Months[1]
    /\ quotations = {}
    /\ invoices = {}
    /\ created = <<>>
    /\ response = Response("none", "none", 0, "none", 0)
    /\ doc = EmptyDoc
    /\ IdleFill
    /\ IdleApply
    /\ IdleAnalyze
    /\ IdleParse
    /\ IdleRepeat
    /\ IdleExtract
    /\ IdleWorkers
    /\ IdleRequests
    /\ IdleScheduler

\* a month goes by
NextMonth ==
    /\ pc = "serving"
    /\ \E i \in 1..(Len(Months) - 1) : clock = Months[i] /\ clock' = Months[i + 1]
    /\ UNCHANGED <<pc, doc, fillVars, applyVars, analyzeVars, parseVars, repeatVars,
                   quotations, invoices, created, response, extractVars, workerVars, requestVars, schedulerVars>>

\* POST /quotations/ : create_quotation.  `request` tells whether client and
\* template are found, `status` is the status the request carries, `fill`
\* whether filling and saving the file succeeds.
CreateQuotation(caller, request, status, fill) ==
    /\ pc = "serving"
    /\ Len(created) < MaxQuotations
    /\ IF require_admin_or_superadmin(caller) # 0
       THEN /\ response' = Response("create_quotation", caller, require_admin_or_superadmin(caller), "none", 0)
            /\ UNCHANGED <<quotations, created, extractVars, workerVars, requestVars, schedulerVars>>
       ELSE IF request # "found"
       THEN /\ response' = Response("create_quotation", caller, 404, "none", 0)
            /\ UNCHANGED <<quotations, created, extractVars, workerVars, requestVars, schedulerVars>>
       ELSE LET quotation == [id |-> NextId(quotations),
                              quotation_number |-> generate_quotation_number(quotations, clock),
                              status |-> status,
                              file |-> "filled"]
            IN IF fill
               THEN /\ quotations' = quotations \cup {quotation}
                    /\ created' = Append(created, [quotation_number |-> quotation.quotation_number,
                                                   year |-> clock.year, month |-> clock.month])
                    /\ response' = Response("create_quotation", caller, 200, "quotation", quotation.id)
               ELSE /\ response' = Response("create_quotation", caller, 500, "none", 0)
                    /\ UNCHANGED <<quotations, created, extractVars, workerVars, requestVars, schedulerVars>>
    /\ UNCHANGED <<pc, doc, fillVars, applyVars, analyzeVars, parseVars, repeatVars,
                   clock, invoices, extractVars, workerVars, requestVars, schedulerVars>>

\* the record of the given id, as db.query(...).filter(id == ...).first()
\* finds it; Found tells whether there is one
Found(table, id) == \E r \in table : r.id = id
Record(table, id) == CHOOSE r \in table : r.id = id

QuotationIds == 1..MaxQuotations

apiFrame == <<pc, doc, fillVars, applyVars, analyzeVars, parseVars, repeatVars, clock>>

\* GET /quotations/ : list_quotations
ListQuotations(caller) ==
    /\ pc = "serving"
    /\ response' = IF require_admin_or_superadmin(caller) # 0
                   THEN Response("list_quotations", caller, require_admin_or_superadmin(caller), "none", 0)
                   ELSE Response("list_quotations", caller, 200, "quotations", 0)
    /\ UNCHANGED <<apiFrame, quotations, invoices, created, extractVars, workerVars, requestVars, schedulerVars>>

\* GET /quotations/{id} : get_quotation
GetQuotation(caller, id) ==
    /\ pc = "serving"
    /\ response' = IF require_admin_or_superadmin(caller) # 0
                   THEN Response("get_quotation", caller, require_admin_or_superadmin(caller), "none", 0)
                   ELSE IF ~Found(quotations, id)
                   THEN Response("get_quotation", caller, 404, "none", 0)
                   ELSE Response("get_quotation", caller, 200, "quotation", id)
    /\ UNCHANGED <<apiFrame, quotations, invoices, created, extractVars, workerVars, requestVars, schedulerVars>>

\* PUT /quotations/{id} : update_quotation, the request carrying a status
UpdateQuotation(caller, id, status) ==
    /\ pc = "serving"
    /\ IF require_admin_or_superadmin(caller) # 0
       THEN /\ response' = Response("update_quotation", caller, require_admin_or_superadmin(caller), "none", 0)
            /\ UNCHANGED quotations
       ELSE IF ~Found(quotations, id)
       THEN /\ response' = Response("update_quotation", caller, 404, "none", 0)
            /\ UNCHANGED quotations
       ELSE /\ quotations' = (quotations \ {Record(quotations, id)})
                                \cup {[Record(quotations, id) EXCEPT !.status = status]}
            /\ response' = Response("update_quotation", caller, 200, "quotation", id)
    /\ UNCHANGED <<apiFrame, invoices, created, extractVars, workerVars, requestVars, schedulerVars>>

\* delete_quotation without the query for the invoices that use the quotation
DeleteQuotation_Unchecked(caller, id) ==
    /\ pc = "serving"
    /\ IF require_admin_or_superadmin(caller) # 0
       THEN /\ response' = Response("delete_quotation", caller, require_admin_or_superadmin(caller), "none", 0)
            /\ UNCHANGED quotations
       ELSE IF ~Found(quotations, id)
       THEN /\ response' = Response("delete_quotation", caller, 404, "none", 0)
            /\ UNCHANGED quotations
       ELSE /\ quotations' = quotations \ {Record(quotations, id)}
            /\ response' = Response("delete_quotation", caller, 200, "detail", id)
    /\ UNCHANGED <<apiFrame, invoices, created, extractVars, workerVars, requestVars, schedulerVars>>

\* DELETE /quotations/{id} : delete_quotation
DeleteQuotation(caller, id) ==
    /\ pc = "serving"
    /\ IF require_admin_or_superadmin(caller) # 0
       THEN /\ response' = Response("delete_quotation", caller, require_admin_or_superadmin(caller), "none", 0)
            /\ UNCHANGED quotations
       ELSE IF ~Found(quotations, id)
       THEN /\ response' = Response("delete_quotation", caller, 404, "none", 0)
            /\ UNCHANGED quotations
       ELSE IF \E inv \in invoices : inv.quotation_id = id
       THEN /\ response' = Response("delete_quotation", caller, 400, "none", id)
            /\ UNCHANGED quotations
       ELSE /\ quotations' = quotations \ {Record(quotations, id)}
            /\ response' = Response("delete_quotation", caller, 200, "detail", id)
    /\ UNCHANGED <<apiFrame, invoices, created, extractVars, workerVars, requestVars, schedulerVars>>

\* GET, HEAD /quotations/document/{id} : get_quotation_document, which has
\* no dependency on the caller
GetQuotationDocument(caller, id) ==
    /\ pc = "serving"
    /\ response' = IF ~Found(quotations, id)
                   THEN Response("get_quotation_document", caller, 404, "none", 0)
                   ELSE Response("get_quotation_document", caller, 200, "file", id)
    /\ UNCHANGED <<apiFrame, quotations, invoices, created, extractVars, workerVars, requestVars, schedulerVars>>

\* POST /quotations/save/{id} : save_quotation_callback, which has no
\* dependency on the caller.  `status` is the status of the request body,
\* `download` the answer of the url it names.
SaveQuotationCallback(caller, id, status, download) ==
    /\ pc = "serving"
    /\ IF status = 2 /\ Found(quotations, id) /\ download = 200
       THEN /\ quotations' = (quotations \ {Record(quotations, id)})
                                \cup {[Record(quotations, id) EXCEPT !.file = "edited"]}
            /\ response' = Response("save_quotation_callback", caller, 200, "error 0", id)
       ELSE /\ response' = Response("save_quotation_callback", caller, 200,
                                    IF status = 2 THEN "error 1" ELSE "error 0", 0)
            /\ UNCHANGED quotations
    /\ UNCHANGED <<apiFrame, invoices, created, extractVars, workerVars, requestVars, schedulerVars>>

\* GET /quotations/onlyoffice-config/{id} : get_onlyoffice_config, which
\* depends on get_current_user only
GetOnlyofficeConfig(caller, id) ==
    /\ pc = "serving"
    /\ response' = IF get_current_user(caller) # 0
                   THEN Response("get_onlyoffice_config", caller, get_current_user(caller), "none", 0)
                   ELSE IF ~Found(quotations, id)
                   THEN Response("get_onlyoffice_config", caller, 404, "none", 0)
                   ELSE Response("get_onlyoffice_config", caller, 200, "config", id)
    /\ UNCHANGED <<apiFrame, quotations, invoices, created, extractVars, workerVars, requestVars, schedulerVars>>

\* GET /quotations/{id}/check-placeholders : check_unfilled_placeholders
CheckUnfilledPlaceholders(caller, id) ==
    /\ pc = "serving"
    /\ response' = IF require_admin_or_superadmin(caller) # 0
                   THEN Response("check_unfilled_placeholders", caller,
                                 require_admin_or_superadmin(caller), "none", 0)
                   ELSE IF ~Found(quotations, id)
                   THEN Response("check_unfilled_placeholders", caller, 404, "none", 0)
                   ELSE Response("check_unfilled_placeholders", caller, 200, "placeholders", id)
    /\ UNCHANGED <<apiFrame, quotations, invoices, created, extractVars, workerVars, requestVars, schedulerVars>>

\* create_invoice without the test of the quotation's status
CreateInvoice_AnyStatus(caller, id, request, fill) ==
    /\ pc = "serving"
    /\ Cardinality(invoices) < MaxInvoices
    /\ IF require_admin_or_superadmin(caller) # 0
       THEN /\ response' = Response("create_invoice", caller, require_admin_or_superadmin(caller), "none", id)
            /\ UNCHANGED invoices
       ELSE IF ~Found(quotations, id) \/ request # "found"
       THEN /\ response' = Response("create_invoice", caller, 404, "none", id)
            /\ UNCHANGED invoices
       ELSE IF ~fill
       THEN /\ response' = Response("create_invoice", caller, 500, "none", id)
            /\ UNCHANGED invoices
       ELSE /\ invoices' = invoices \cup {[id |-> NextId(invoices), quotation_id |-> id,
                                           status |-> "unpaid"]}
            /\ response' = Response("create_invoice", caller, 200, "invoice", id)
    /\ UNCHANGED <<apiFrame, quotations, created, extractVars, workerVars, requestVars, schedulerVars>>

\* POST /invoices/ : create_invoice.  `request` tells whether client and
\* template are found, `fill` whether filling and saving the file succeeds;
\* the record added before the fill is deleted again when the fill fails.
CreateInvoice(caller, id, request, fill) ==
    /\ pc = "serving"
    /\ Cardinality(invoices) < MaxInvoices
    /\ IF require_admin_or_superadmin(caller) # 0
       THEN /\ response' = Response("create_invoice", caller, require_admin_or_superadmin(caller), "none", id)
            /\ UNCHANGED invoices
       ELSE IF ~Found(quotations, id)
       THEN /\ response' = Response("create_invoice", caller, 404, "none", id)
            /\ UNCHANGED invoices
       ELSE IF Record(quotations, id).status # "accepted"
       THEN /\ response' = Response("create_invoice", caller, 400, "none", id)
            /\ UNCHANGED invoices
       ELSE IF request # "found"
       THEN /\ response' = Response("create_invoice", caller, 404, "none", id)
            /\ UNCHANGED invoices
       ELSE IF ~fill
       THEN /\ response' = Response("create_invoice", caller, 500, "none", id)
            /\ UNCHANGED invoices
       ELSE /\ invoices' = invoices \cup {[id |-> NextId(invoices), quotation_id |-> id,
                                           status |-> "unpaid"]}
            /\ response' = Response("create_invoice", caller, 200, "invoice", id)
    /\ UNCHANGED <<apiFrame, quotations, created, extractVars, workerVars, requestVars, schedulerVars>>

\* DELETE /invoices/{id} : delete_invoice
DeleteInvoice(caller, id) ==
    /\ pc = "serving"
    /\ IF require_admin_or_superadmin(caller) # 0
       THEN /\ response' = Response("delete_invoice", caller, require_admin_or_superadmin(caller), "none", 0)
            /\ UNCHANGED invoices
       ELSE IF ~Found(invoices, id)
       THEN /\ response' = Response("delete_invoice", caller, 404, "none", 0)
            /\ UNCHANGED invoices
       ELSE /\ invoices' = invoices \ {Record(invoices, id)}
            /\ response' = Response("delete_invoice", caller, 200, "detail", id)
    /\ UNCHANGED <<apiFrame, quotations, created, extractVars, workerVars, requestVars, schedulerVars>>

NextApi ==
    \/ NextMonth
    \/ \E caller \in Callers, request \in {"found", "not found"},
          status \in {"pending", "accepted"}, fill \in BOOLEAN :
          CreateQuotation(caller, request, status, fill)
    \/ \E caller \in Callers : ListQuotations(caller)
    \/ \E caller \in Callers, id \in QuotationIds : GetQuotation(caller, id)
    \/ \E caller \in Callers, id \in QuotationIds, status \in Statuses :
          UpdateQuotation(caller, id, status)
    \/ \E caller \in Callers, id \in QuotationIds : DeleteQuotation(caller, id)
    \/ \E caller \in Callers, id \in QuotationIds : GetQuotationDocument(caller, id)
    \/ \E caller \in Callers, id \in QuotationIds, status \in {1, 2}, download \in {200, 404} :
          SaveQuotationCallback(caller, id, status, download)
    \/ \E caller \in Callers, id \in QuotationIds : GetOnlyofficeConfig(caller, id)
    \/ \E caller \in Callers, id \in QuotationIds : CheckUnfilledPlaceholders(caller, id)
    \/ \E caller \in Callers, id \in QuotationIds, request \in {"found", "not found"},
          fill \in BOOLEAN :
          CreateInvoice(caller, id, request, fill)
    \/ \E caller \in Callers, id \in 1..MaxInvoices : DeleteInvoice(caller, id)

SpecApi == InitApi /\ [][NextApi]_vars

(***************************************************************************)
(* Properties of the quotation numbers.                                    *)
(***************************************************************************)
\* "Q", the year in four digits and the month in two
MonthPrefix(year, month) == <<"Q">> \o format_0d(year, 4) \o format_0d(month, 2)

IsDigits(text) == \A i \in 1..Len(text) : \E d \in 0..9 : DigitChars[d + 1] = text[i]

\* C15: of two successful create_quotation calls that follow one another in
\* the same month, both numbers start with Q, the year and the month, carry
\* three digits at the places 7 to 9, and those of the second number make a
\* number one greater than those of the first.
C15_RunningNumberIncrements ==
    \A i \in 1..(Len(created) - 1) :
        (created[i].year = created[i + 1].year /\ created[i].month = created[i + 1].month) =>
            /\ startswith(created[i].quotation_number, MonthPrefix(created[i].year, created[i].month))
            /\ startswith(created[i + 1].quotation_number, MonthPrefix(created[i].year, created[i].month))
            /\ IsDigits(slice(created[i].quotation_number, 7, 10))
            /\ IsDigits(slice(created[i + 1].quotation_number, 7, 10))
            /\ int_of(slice(created[i + 1].quotation_number, 7, 10))
                  = int_of(slice(created[i].quotation_number, 7, 10)) + 1

(***************************************************************************)
(* Properties of the access to the quotations.                             *)
(***************************************************************************)
QuotationEndpoints ==
    {"list_quotations", "create_quotation", "get_quotation", "update_quotation",
     "delete_quotation", "get_quotation_document", "save_quotation_callback",
     "get_onlyoffice_config", "check_unfilled_placeholders"}

\* a step that serves a request: every step but the passing of a month
ServesRequest == clock' = clock

\* C16: a request to a quotations endpoint from a caller without a valid
\* token is turned down with 401, one from a user who is neither admin nor
\* superadmin with 403, and such a request is given no quotation record or
\* file and changes none.
C16_OnlyAdminsReachQuotations ==
    [][(/\ ServesRequest
        /\ response'.endpoint \in QuotationEndpoints
        /\ response'.caller \in {"anonymous", "invalid token", "user"})
       => /\ response'.code = (IF response'.caller = "user" THEN 403 ELSE 401)
          /\ response'.body = "none"
          /\ quotations' = quotations]_vars

(***************************************************************************)
(* Properties of the invoices.                                             *)
(***************************************************************************)
\* C17: whenever create_invoice is called for a quotation, it succeeds only
\* if the quotation's status is 'accepted' at the time of the call, and then
\* adds an invoice of that quotation; for a quotation of any other status it
\* fails with 400 and the invoice records are left as they were.
C17_InvoiceOnlyFromAccepted ==
    [][(/\ ServesRequest
        /\ response'.endpoint = "create_invoice"
        /\ require_admin_or_superadmin(response'.caller) = 0)
       => /\ response'.code = 200 =>
                /\ Found(quotations, response'.of)
                /\ Record(quotations, response'.of).status = "accepted"
                /\ \E inv \in invoices' \ invoices : inv.quotation_id = response'.of
          /\ (Found(quotations, response'.of)
                /\ Record(quotations, response'.of).status # "accepted") =>
                /\ response'.code = 400
                /\ invoices' = invoices]_vars

\* an admin has asked for an invoice of a quotation that is pending or
\* rejected and was turned down
C17_Witness ==
    /\ response.endpoint = "create_invoice"
    /\ response.caller = "admin"
    /\ response.code = 400
    /\ Found(quotations, response.of)
    /\ Record(quotations, response.of).status \in {"pending", "rejected"}
    /\ invoices = {}

(***************************************************************************)
(* DocumentTextExtractor (services/document_extractor.py).                 *)
(***************************************************************************)
IsDigit(c) == \E d \in 0..9 : DigitChars[d + 1] = c

\* the first place at or after i that holds no digit
RECURSIVE DigitsEnd(_, _)
DigitsEnd(text, i) ==
    IF i <= Len(text) /\ IsDigit(text[i]) THEN DigitsEnd(text, i + 1) ELSE i

\* the first place at or after i that holds no white space
RECURSIVE SpacesEnd(_, _)
SpacesEnd(text, i) ==
    IF i <= Len(text) /\ IsSpace(text[i]) THEN SpacesEnd(text, i + 1) ELSE i

\* re.search(word + r'\s*(\d+)', text): the digits of the leftmost match, <<>>
\* when there is none (with an empty word and no space allowed: r'h(\d+)' is
\* WordNumber(<<"h">>, FALSE, text))
WordNumber(word, spaces, text) ==
    LET DigitsAt(p) == IF spaces THEN SpacesEnd(text, p + Len(word)) ELSE p + Len(word)
        Matches(p) == /\ OccursAt(word, text, p)
                      /\ DigitsEnd(text, DigitsAt(p)) > DigitsAt(p)
        places == {p \in 1..Len(text) : Matches(p)}
    IN IF places = {} THEN <<>>
       ELSE LET p == CHOOSE q \in places : \A r \in places : q <= r
            IN SubSeq(text, DigitsAt(p), DigitsEnd(text, DigitsAt(p)) - 1)

\* _is_heading_paragraph
_is_heading_paragraph(style_name) ==
    \E indicator \in {<<"h", "e", "a", "d", "i", "n", "g">>, <<"t", "i", "t", "l", "e">>,
                      <<"s", "u", "b", "t", "i", "t", "l", "e">>, <<"h", "e", "a", "d", "e", "r">>,
                      <<"h", "1">>, <<"h", "2">>, <<"h", "3">>, <<"h", "4">>, <<"h", "5">>, <<"h", "6">>} :
        str_in(indicator, str_lower(style_name))

\* _get_heading_level: the level, None for an empty style name
_get_heading_level(style_name) ==
    LET style_lower == str_lower(style_name)
    IN IF style_name = <<>> THEN None
       ELSE IF WordNumber(<<"h", "e", "a", "d", "i", "n", "g">>, TRUE, style_lower) # <<>>
       THEN <<int_of(WordNumber(<<"h", "e", "a", "d", "i", "n", "g">>, TRUE, style_lower))>>
       ELSE IF WordNumber(<<"h">>, FALSE, style_lower) # <<>>
       THEN <<int_of(WordNumber(<<"h">>, FALSE, style_lower))>>
       ELSE IF str_in(<<"t", "i", "t", "l", "e">>, style_lower) THEN <<1>>
       ELSE IF str_in(<<"s", "u", "b", "t", "i", "t", "l", "e">>, style_lower) THEN <<2>>
       ELSE <<1>>

\* the entries of a list that pass a test, as `if not text: continue` leaves them
NonEmpty(texts) == SelectSeq(texts, LAMBDA t : t # <<>>)

StrippedTexts(ps) == NonEmpty([i \in 1..Len(ps) |-> str_strip(paragraph_text(ps[i]))])

\* the paragraphs whose stripped text is not empty
TextParagraphs(ps) == SelectSeq(ps, LAMBDA para : str_strip(paragraph_text(para)) # <<>>)

\* len(text.split())
RECURSIVE WordCount(_)
WordCount(text) ==
    IF text = <<>> THEN 0
    ELSE WordCount(Tail(text))
            + (IF ~IsSpace(Head(text)) /\ (Len(text) = 1 \/ IsSpace(text[2])) THEN 1 ELSE 0)

\* _extract_table_content
_extract_table_content(table, table_idx) ==
    [index |-> table_idx,
     rows_count |-> Len(table.rows),
     rows |-> [r \in 1..Len(table.rows) |->
        [index |-> r - 1,
         cells |-> [c \in 1..Len(table.rows[r].cells) |->
            [index |-> c - 1, text |-> str_strip(cell_text(table.rows[r].cells[c]))]]]]]

\* the texts of the cells of the extracted tables that are not empty
TableTexts(tables) ==
    NonEmpty(Concat([t \in 1..Len(tables) |->
        Concat([r \in 1..Len(tables[t].rows) |->
            [c \in 1..Len(tables[t].rows[r].cells) |-> tables[t].rows[r].cells[c].text]])]))

\* _extract_document_content
_extract_document_content(d) ==
    LET shown == TextParagraphs(d.paragraphs)
        text(i) == str_strip(paragraph_text(shown[i]))
        heading(i) == _is_heading_paragraph(shown[i].style)
        structured_text == [i \in 1..Len(shown) |->
            [type |-> IF heading(i) THEN "heading" ELSE "paragraph",
             content |-> text(i),
             level |-> IF heading(i) THEN _get_heading_level(shown[i].style) ELSE None]]
        tables == [t \in 1..Len(d.tables) |-> _extract_table_content(d.tables[t], t - 1)]
        headers == StrippedTexts(HeaderParagraphs(d))
        footers == StrippedTexts(FooterParagraphs(d))
        full_text_of == str_join(<<"\n">>,
            [i \in 1..Len(shown) |-> text(i)] \o TableTexts(tables))
    IN [paragraphs |-> [i \in 1..Len(shown) |->
            [text |-> text(i), style |-> shown[i].style, is_heading |-> heading(i),
             runs_count |-> Len(shown[i].runs)]],
        headings |-> SelectSeq([i \in 1..Len(shown) |->
                        [text |-> text(i), level |-> structured_text[i].level,
                         style |-> shown[i].style, is_heading |-> heading(i)]],
                        LAMBDA h : h.is_heading),
        structured_text |-> structured_text,
        tables |-> tables,
        headers |-> headers,
        footers |-> footers,
        full_text |-> full_text_of,
        metadata |-> [total_paragraphs |-> Len(shown),
                      total_tables |-> Len(tables),
                      total_words |-> WordCount(full_text_of),
                      has_headers |-> Len(headers) > 0,
                      has_footers |-> Len(footers) > 0]]

\* what Document(path) says of a file that is no document container
OpenErrors ==
    [x \in {"not a zip file", "zip without content types", "not a Word file"} |->
        CASE x = "not a zip file" -> "Package not found"
          [] x = "zip without content types" -> "There is no item named '[Content_Types].xml' in the archive"
          [] x = "not a Word file" -> "file is not a Word file"]

\* except Exception as e: raise Exception(f"Failed to extract text from document content: {str(e)}")
ExtractFailed(message) ==
    [type |-> "Exception", args |-> <<"Failed to extract text from document content: ", message>>]

extract_from_content_EmptyTree(file_content) ==
    IF file_content.container = "docx"
    THEN [ok |-> TRUE, content |-> _extract_document_content(file_content.document)]
    ELSE [ok |-> TRUE, content |-> _extract_document_content(EmptyDoc)]

\* extract_from_content: the content of a document, the exception for bytes
\* that Document cannot open
extract_from_content(file_content) ==
    IF file_content.container = "docx"
    THEN [ok |-> TRUE, content |-> _extract_document_content(file_content.document)]
    ELSE [ok |-> FALSE, raised |-> ExtractFailed(OpenErrors[file_content.container])]

(***************************************************************************)
(* The bytes extraction is run on.                                         *)
(***************************************************************************)
StyleNames ==
    { <<"H", "e", "a", "d", "i", "n", "g", " ", "2">>,   \* Heading 2
     <<"H", "e", "a", "d", "i", "n", "g", " ", "1", "2">>,   \* Heading 12
     <<"H", "e", "a", "d", "i", "n", "g">>,   \* Heading
     <<"H", "3">>,   \* H3
     <<"T", "i", "t", "l", "e">>,   \* Title
     <<"S", "u", "b", "t", "i", "t", "l", "e">>,   \* Subtitle
     <<"T", "i", "t", "l", "e", " ", "h", "2">>,   \* Title h2
     <<"H", "e", "a", "d", "e", "r">>,   \* Header
     <<"N", "o", "r", "m", "a", "l">> }   \* Normal

ExtractTexts == {<<"a">>, <<" ", "a", " ", "b">>, <<" ">>}

StyledParagraph(text, style) == [runs |-> <<Run(text, "bold")>>, style |-> style]

StyledParagraphs == {StyledParagraph(t, st) : t \in ExtractTexts, st \in StyleNames}

\* a document of one or two styled body paragraphs, a table and a header
ExtractDoc(ps) ==
    [paragraphs |-> ps,
     tables |-> << [rows |-> << [cells |->
                     << [paragraphs |-> <<Paragraph(<<Run(<<"b">>, "bold")>>)>>],
                        [paragraphs |-> <<Paragraph(<<Run(<<" ">>, "bold")>>)>>] >>] >>] >>,
     sections |-> << [header |-> <<Paragraph(<<Run(<<"x">>, "bold")>>)>>, footer |-> <<>>] >>]

Blobs ==
    {[container |-> "docx", document |-> ExtractDoc(ps)] :
        ps \in UNION {[1..n -> StyledParagraphs] : n \in 1..MaxParagraphs}}
      \cup {[container |-> c] : c \in DOMAIN OpenErrors}

InitExtract ==
    /\ pc = "start"
    /\ blob \in Blobs
    /\ extraction = [ok |-> FALSE]
    /\ doc = EmptyDoc
    /\ IdleFill
    /\ IdleApply
    /\ IdleAnalyze
    /\ IdleParse
    /\ IdleRepeat
    /\ IdleApi
    /\ IdleWorkers
    /\ IdleRequests
    /\ IdleScheduler

ExtractFromContent ==
    /\ pc = "start"
    /\ extraction' = extract_from_content(blob)
    /\ pc' = "extracted"
    /\ UNCHANGED <<doc, fillVars, applyVars, analyzeVars, parseVars, repeatVars, apiVars, blob, workerVars, requestVars, schedulerVars>>

NextExtract == ExtractFromContent

SpecExtract == InitExtract /\ [][NextExtract]_vars

LevelByTheRules(style_name) ==
    LET style_lower == str_lower(style_name)
    IN IF WordNumber(<<"h", "e", "a", "d", "i", "n", "g">>, TRUE, style_lower) # <<>>
       THEN int_of(WordNumber(<<"h", "e", "a", "d", "i", "n", "g">>, TRUE, style_lower))
       ELSE IF WordNumber(<<"h">>, FALSE, style_lower) # <<>>
       THEN int_of(WordNumber(<<"h">>, FALSE, style_lower))
       ELSE IF str_in(<<"s", "u", "b", "t", "i", "t", "l", "e">>, style_lower) THEN 2
       ELSE 1

\* C20: every heading of the extracted content has the level the ordered
\* rules give its style name: the number after 'heading', else the number of
\* an h<digit>, else 1 for a title and 2 for a subtitle, else 1.
C20_HeadingLevelByTheRules ==
    (pc = "extracted" /\ extraction.ok) =>
        \A i \in 1..Len(extraction.content.headings) :
            extraction.content.headings[i].level
                = <<LevelByTheRules(extraction.content.headings[i].style)>>

(***************************************************************************)
(* Tokens cut by run boundaries.                                           *)
(***************************************************************************)
\* the tokens of the paragraph's joined text that no single run holds whole
SplitTokens(p) ==
    LET ms == placeholder_pattern_finditer(paragraph_text(p))
    IN {ms[m] : m \in {k \in 1..Len(ms) :
                         ~ \E j \in 1..Len(p.runs) :
                               /\ RunOffset(p, j) < ms[k].start
                               /\ ms[k].end <= RunOffset(p, j) + Len(p.runs[j].text)}}

Min(a, b) == IF a <= b THEN a ELSE b

\* run j of paragraph q, the filled form of p, still holds the characters of
\* token t that run j of p held: at its end when the token starts in the run,
\* at its start when the token ends in it, as its whole text otherwise
RunKeepsPart(p, q, j, t) ==
    LET off == RunOffset(p, j)
        before == p.runs[j].text
        after == q.runs[j].text
        lo == Max(t.start, off + 1)
        hi == Min(t.end, off + Len(before))
        part == SubSeq(paragraph_text(p), lo, hi)
    IN lo <= hi =>
          IF t.start > off
          THEN /\ Len(after) >= Len(part)
               /\ SubSeq(after, Len(after) - Len(part) + 1, Len(after)) = part
          ELSE IF t.end <= off + Len(before)
          THEN /\ Len(after) >= Len(part)
               /\ SubSeq(after, 1, Len(part)) = part
          ELSE after = before

LeftAsLiteralText(p, q, t) == \A j \in 1..Len(p.runs) : RunKeepsPart(p, q, j, t)

\* some run of the document holds a whole token of this (stripped) name
WholeTokenNamed(d, n) ==
    \E i \in 1..Len(AllParagraphs(d)) : \E j \in 1..Len(AllParagraphs(d)[i].runs) :
        LET ms == placeholder_pattern_finditer(AllParagraphs(d)[i].runs[j].text)
        IN \E m \in 1..Len(ms) : str_strip(ms[m].group1) = n

\* C19 as stated: every token split across two or more runs of a paragraph is
\* left as literal text by the fill and its name is not in unfilled_names,
\* whatever the value map holds for the name.
C19_SplitTokenLeftAndUnreported ==
    pc # "start" =>
        \A i \in 1..Len(AllParagraphs(doc)) :
            \A t \in SplitTokens(AllParagraphs(doc)[i]) :
                /\ LeftAsLiteralText(AllParagraphs(doc)[i], AllParagraphs(filled)[i], t)
                /\ str_strip(t.group1) \notin Range(unfilled)

\* C19 amended: a split token whose name holds no brace keeps its characters
\* in every run it touches; its name is not in unfilled_names when the value
\* map holds a non-empty value for it, nor when no run of the document holds
\* a whole token of that name.
C19_SplitTokenLeftUnreportedByItself ==
    pc # "start" =>
        \A i \in 1..Len(AllParagraphs(doc)) :
            \A t \in SplitTokens(AllParagraphs(doc)[i]) :
                BraceFree(t.group1) =>
                    /\ LeftAsLiteralText(AllParagraphs(doc)[i], AllParagraphs(filled)[i], t)
                    /\ ~Unresolved(str_strip(t.group1), placeholder_map)
                          => str_strip(t.group1) \notin Range(unfilled)
                    /\ ~WholeTokenNamed(doc, str_strip(t.group1))
                          => str_strip(t.group1) \notin Range(unfilled)

\* a filled document whose first body paragraph holds a token cut over three
\* runs, with a non-empty value for its name, and cut tokens elsewhere of a
\* name that has a value and of a name that has none
C19_Witness ==
    /\ pc = "filled"
    /\ Len(doc.paragraphs[1].runs) = 3
    /\ \E t \in SplitTokens(doc.paragraphs[1]) :
          /\ t.group1 = <<"a">>
          /\ placeholder_map[<<"a">>] = <<"v">>
          /\ paragraph_text(filled.paragraphs[1]) = t.group0
    /\ <<"a">> \notin Range(unfilled)

(***************************************************************************)
(* Values of the result against the values of the response.                *)
(***************************************************************************)
\* the variable carries what the entry says and nothing the entry does not
\* say: a text field the entry lacks is unset, a confidence the entry lacks is
\* no number
CarriesOnlyResponseValues(v, var_data) ==
    /\ v.name = dict_get(var_data, "name", None)
    /\ v.original_text = dict_get(var_data, "original_text", None)
    /\ IF "confidence" \in DOMAIN var_data
       THEN v.confidence = var_data["confidence"]
       ELSE v.confidence \notin Nat

\* C21: every variable of the result carries the values of an entry of the
\* response and no value for a field that the entry lacks.
C21_NoInventedValues ==
    pc = "result" =>
        \A i \in 1..Len(variables) :
            \E k \in 1..Len(ResponseEntries) :
                CarriesOnlyResponseValues(variables[i], ResponseEntries[k])

(***************************************************************************)
(* Concurrent calls of extract, fill and apply, each on its own bytes,     *)
(* sharing the temporary directory.                                        *)
(*   apply:   tempfile.mktemp, open(path, 'wb'), Document(path) with       *)
(*            retries, tempfile.mktemp, doc.save, open(path, 'rb') with    *)
(*            retries, os.unlink of both files                             *)
(*   extract: NamedTemporaryFile(delete=False), Document(path), os.unlink  *)
(*   fill:    BytesIO only                                                 *)
(***************************************************************************)
Workers == {"w1", "w2"}
max_retries == 3

WorkerTexts == {<<"a">>, <<"b">>}
WorkerBlobs ==
    {[container |-> "docx",
      document |-> ExtractDoc(<<StyledParagraph(t, <<"N", "o", "r", "m", "a", "l">>)>>)] :
          t \in WorkerTexts}
      \cup {[container |-> "not a zip file"]}
WorkerReplacements == << << <<"a">>, <<"x">> >> >>
WorkerPlaceholderMap == _create_placeholder_map([n \in DataNames |-> <<"v">>], <<"1">>)

NewCall(op, file_content) ==
    [op |-> op, file_content |-> file_content, pc |-> "start",
     temp_input_path |-> "", temp_output_path |-> "", attempt |-> 0,
     doc |-> EmptyDoc, result |-> [ok |-> FALSE]]

Exists(path) == path \in TempNames /\ temp_files[path] # NoFile

\* Document(path): the document of a file that holds one
Opens(path) == Exists(path) /\ temp_files[path].container = "docx"
OpenError(path) ==
    IF Exists(path) THEN OpenErrors[temp_files[path].container] ELSE "Package not found"

\* except Exception as e: raise Exception(f"Failed to apply variable replacements: {str(e)}")
ApplyFailed(message) ==
    [type |-> "Exception", args |-> <<"Failed to apply variable replacements: ", message>>]

\* the whole fill call, which works on BytesIO
FillCall(file_content) ==
    IF file_content.container = "docx"
    THEN LET r == fill_template_with_client_data(file_content.document, WorkerPlaceholderMap)
         IN [ok |-> TRUE, content |-> [container |-> "docx", document |-> r.doc],
             unfilled |-> r.unfilled]
    ELSE [ok |-> FALSE,
          raised |-> [type |-> "Exception", args |-> <<OpenErrors[file_content.container]>>]]

\* what the call returns when no other call runs
RunAlone(c) ==
    CASE c.op = "extract" -> extract_from_content(c.file_content)
      [] c.op = "fill" -> FillCall(c.file_content)
      [] c.op = "apply" ->
            IF c.file_content.container = "docx"
            THEN [ok |-> TRUE,
                  content |-> [container |-> "docx",
                               document |-> apply_variable_replacements_to_document(
                                                c.file_content.document, WorkerReplacements)]]
            ELSE [ok |-> FALSE, raised |-> ApplyFailed(OpenErrors[c.file_content.container])]

InitWorkers ==
    /\ pc = "workers"
    /\ doc = EmptyDoc
    /\ temp_files = [n \in TempNames |-> NoFile]
    /\ calls \in [Workers -> {NewCall(op, b) : op \in {"extract", "fill", "apply"},
                                                 b \in WorkerBlobs}]
    /\ IdleFill
    /\ IdleApply
    /\ IdleAnalyze
    /\ IdleParse
    /\ IdleRepeat
    /\ IdleApi
    /\ IdleExtract
    /\ IdleRequests
    /\ IdleScheduler

workersFrame ==
    UNCHANGED <<pc, doc, fillVars, applyVars, analyzeVars, parseVars, repeatVars, apiVars,
                extractVars, requestVars, schedulerVars>>

\* temp_input_path = tempfile.mktemp(suffix='.docx'): a name under which no
\* file exists at the time of the call; the file is not created
MktempInput(w) ==
    /\ calls[w].op = "apply"
    /\ calls[w].pc = "start"
    /\ \E n \in TempNames :
          /\ ~Exists(n)
          /\ calls' = [calls EXCEPT ![w].temp_input_path = n, ![w].pc = "write"]
    /\ UNCHANGED temp_files
    /\ workersFrame

\* with open(temp_input_path, 'wb') as f: f.write(file_content)
WriteInput(w) ==
    /\ calls[w].op = "apply"
    /\ calls[w].pc = "write"
    /\ temp_files' = [temp_files EXCEPT ![calls[w].temp_input_path] = calls[w].file_content]
    /\ calls' = [calls EXCEPT ![w].pc = "load", ![w].attempt = 0]
    /\ workersFrame

\* one attempt of doc = Document(temp_input_path); the replacements are made
\* on the loaded document; the last failed attempt raises
LoadDocument(w) ==
    /\ calls[w].op = "apply"
    /\ calls[w].pc = "load"
    /\ IF Opens(calls[w].temp_input_path)
       THEN calls' = [calls EXCEPT
                ![w].doc = apply_variable_replacements_to_document(
                               temp_files[calls[w].temp_input_path].document, WorkerReplacements),
                ![w].pc = "mktemp"]
       ELSE IF calls[w].attempt = max_retries - 1
       THEN calls' = [calls EXCEPT
                ![w].result = [ok |-> FALSE,
                               raised |-> ApplyFailed(OpenError(calls[w].temp_input_path))],
                ![w].pc = "cleanup"]
       ELSE calls' = [calls EXCEPT ![w].attempt = @ + 1]
    /\ UNCHANGED temp_files
    /\ workersFrame

\* temp_output_path = tempfile.mktemp(suffix='.docx')
MktempOutput(w) ==
    /\ calls[w].op = "apply"
    /\ calls[w].pc = "mktemp"
    /\ \E n \in TempNames :
          /\ ~Exists(n)
          /\ calls' = [calls EXCEPT ![w].temp_output_path = n, ![w].pc = "save"]
    /\ UNCHANGED temp_files
    /\ workersFrame

\* doc.save(temp_output_path)
SaveOutput(w) ==
    /\ calls[w].op = "apply"
    /\ calls[w].pc = "save"
    /\ temp_files' = [temp_files EXCEPT ![calls[w].temp_output_path] =
                         [container |-> "docx", document |-> calls[w].doc]]
    /\ calls' = [calls EXCEPT ![w].pc = "read", ![w].attempt = 0]
    /\ workersFrame

\* one attempt of open(temp_output_path, 'rb') and f.read()
ReadOutput(w) ==
    /\ calls[w].op = "apply"
    /\ calls[w].pc = "read"
    /\ IF Exists(calls[w].temp_output_path)
       THEN calls' = [calls EXCEPT
                ![w].result = [ok |-> TRUE, content |-> temp_files[calls[w].temp_output_path]],
                ![w].pc = "cleanup"]
       ELSE IF calls[w].attempt = max_retries - 1
       THEN calls' = [calls EXCEPT
                ![w].result = [ok |-> FALSE, raised |-> ApplyFailed("No such file or directory")],
                ![w].pc = "cleanup"]
       ELSE calls' = [calls EXCEPT ![w].attempt = @ + 1]
    /\ UNCHANGED temp_files
    /\ workersFrame

\* finally: os.unlink of each temporary path that exists
CleanUp(w) ==
    /\ calls[w].op = "apply"
    /\ calls[w].pc = "cleanup"
    /\ temp_files' = [n \in TempNames |->
                         IF n \in {calls[w].temp_input_path, calls[w].temp_output_path}
                         THEN NoFile ELSE temp_files[n]]
    /\ calls' = [calls EXCEPT ![w].pc = "done"]
    /\ workersFrame

\* with tempfile.NamedTemporaryFile(suffix='.docx', delete=False) as temp_file:
\* the file is created under a name no file has, and written
CreateTemporaryFile(w) ==
    /\ calls[w].op = "extract"
    /\ calls[w].pc = "start"
    /\ \E n \in TempNames :
          /\ ~Exists(n)
          /\ temp_files' = [temp_files EXCEPT ![n] = calls[w].file_content]
          /\ calls' = [calls EXCEPT ![w].temp_input_path = n, ![w].pc = "open"]
    /\ workersFrame

\* doc = Document(temp_file_path); return self._extract_document_content(doc)
OpenTemporaryFile(w) ==
    /\ calls[w].op = "extract"
    /\ calls[w].pc = "open"
    /\ calls' = [calls EXCEPT
          ![w].result =
              IF Opens(calls[w].temp_input_path)
              THEN [ok |-> TRUE,
                    content |-> _extract_document_content(
                                    temp_files[calls[w].temp_input_path].document)]
              ELSE [ok |-> FALSE,
                    raised |-> ExtractFailed(OpenError(calls[w].temp_input_path))],
          ![w].pc = "unlink"]
    /\ UNCHANGED temp_files
    /\ workersFrame

\* finally: os.unlink(temp_file_path), which raises when the file is gone
UnlinkTemporaryFile(w) ==
    /\ calls[w].op = "extract"
    /\ calls[w].pc = "unlink"
    /\ IF Exists(calls[w].temp_input_path)
       THEN /\ temp_files' = [temp_files EXCEPT ![calls[w].temp_input_path] = NoFile]
            /\ calls' = [calls EXCEPT ![w].pc = "done"]
       ELSE /\ UNCHANGED temp_files
            /\ calls' = [calls EXCEPT
                  ![w].result = [ok |-> FALSE,
                                 raised |-> ExtractFailed("No such file or directory")],
                  ![w].pc = "done"]
    /\ workersFrame

\* fill_template_with_client_data: Document(BytesIO(...)) and doc.save(BytesIO)
FillInMemory(w) ==
    /\ calls[w].op = "fill"
    /\ calls[w].pc = "start"
    /\ calls' = [calls EXCEPT ![w].result = FillCall(calls[w].file_content), ![w].pc = "done"]
    /\ UNCHANGED temp_files
    /\ workersFrame

NextWorkers ==
    \E w \in Workers :
        \/ MktempInput(w)
        \/ WriteInput(w)
        \/ LoadDocument(w)
        \/ MktempOutput(w)
        \/ SaveOutput(w)
        \/ ReadOutput(w)
        \/ CleanUp(w)
        \/ CreateTemporaryFile(w)
        \/ OpenTemporaryFile(w)
        \/ UnlinkTemporaryFile(w)
        \/ FillInMemory(w)

SpecWorkers == InitWorkers /\ [][NextWorkers]_vars

\* C22: under every interleaving of the steps of two calls, a call that has
\* returned has returned what it returns when it runs alone.
C22_CallsDoNotInterfere ==
    \A w \in DOMAIN calls :
        calls[w].pc = "done" => calls[w].result = RunAlone(calls[w])

(***************************************************************************)
(* Concurrent create_quotation requests, step by step: each request reads  *)
(* the latest number, inserts and commits its record, then fills and saves *)
(* the file (or deletes the record when that fails).  Each step is one     *)
(* database transaction; the requests share the quotations table.          *)
(***************************************************************************)
Requests == {"r1", "r2", "r3"}

NewRequest(found, fill) ==
    [pc |-> "start", found |-> found, fill |-> fill, quotation_number |-> <<>>,
     id |-> 0, code |-> 0, detail |-> "none"]

InitRequests ==
    /\ pc = "requests"
    /\ doc = EmptyDoc
    /\ clock = Months[1]
    /\ quotations = {}
    /\ invoices = {}
    /\ created = <<>>
    /\ response = Response("none", "none", 0, "none", 0)
    /\ requests \in [Requests -> {NewRequest(found, fill) : found, fill \in BOOLEAN}]
    /\ IdleFill
    /\ IdleApply
    /\ IdleAnalyze
    /\ IdleParse
    /\ IdleRepeat
    /\ IdleExtract
    /\ IdleWorkers
    /\ IdleScheduler

requestsFrame ==
    UNCHANGED <<pc, doc, fillVars, applyVars, analyzeVars, parseVars, repeatVars,
                clock, invoices, created, response, extractVars, workerVars, schedulerVars>>

\* client and template are looked up: 404 when one is missing
VerifyRequest(r) ==
    /\ requests[r].pc = "start"
    /\ requests' = IF requests[r].found
                   THEN [requests EXCEPT ![r].pc = "number"]
                   ELSE [requests EXCEPT ![r].pc = "done", ![r].code = 404,
                                         ![r].detail = "not found"]
    /\ UNCHANGED quotations
    /\ requestsFrame

\* quotation_number = generate_quotation_number(db)
GenerateNumber(r) ==
    /\ requests[r].pc = "number"
    /\ requests' = [requests EXCEPT
          ![r].quotation_number = generate_quotation_number(quotations, clock),
          ![r].pc = "insert"]
    /\ UNCHANGED quotations
    /\ requestsFrame

\* db.add(quotation); db.commit(); db.refresh(quotation): the column
\* quotation_number is unique, the commit of a number already in the table
\* raises IntegrityError, which nothing catches
InsertRecord(r) ==
    /\ requests[r].pc = "insert"
    /\ IF \E q \in quotations : q.quotation_number = requests[r].quotation_number
       THEN /\ requests' = [requests EXCEPT ![r].pc = "done", ![r].code = 500,
                                             ![r].detail = "IntegrityError"]
            /\ UNCHANGED quotations
       ELSE /\ quotations' = quotations \cup
                   {[id |-> NextId(quotations),
                     quotation_number |-> requests[r].quotation_number,
                     status |-> "pending", file |-> "none"]}
            /\ requests' = [requests EXCEPT ![r].pc = "fill", ![r].id = NextId(quotations)]
    /\ requestsFrame

\* the try block without its except clause: the record stays when the fill fails
FillAndSave_KeepRecord(r) ==
    /\ requests[r].pc = "fill"
    /\ IF requests[r].fill
       THEN /\ quotations' = {IF q.id = requests[r].id THEN [q EXCEPT !.file = "filled"] ELSE q :
                                 q \in quotations}
            /\ requests' = [requests EXCEPT ![r].pc = "done", ![r].code = 200,
                                             ![r].detail = "quotation"]
       ELSE /\ UNCHANGED quotations
            /\ requests' = [requests EXCEPT ![r].pc = "done", ![r].code = 500,
                                             ![r].detail = "Failed to create quotation"]
    /\ requestsFrame

\* the try block: the template is read and filled, the file written and the
\* record updated with its path; on any exception the record is deleted and
\* the request ends with 500
FillAndSave(r) ==
    /\ requests[r].pc = "fill"
    /\ IF requests[r].fill
       THEN /\ quotations' = {IF q.id = requests[r].id THEN [q EXCEPT !.file = "filled"] ELSE q :
                                 q \in quotations}
            /\ requests' = [requests EXCEPT ![r].pc = "done", ![r].code = 200,
                                             ![r].detail = "quotation"]
       ELSE /\ quotations' = {q \in quotations : q.id # requests[r].id}
            /\ requests' = [requests EXCEPT ![r].pc = "done", ![r].code = 500,
                                             ![r].detail = "Failed to create quotation"]
    /\ requestsFrame

NextRequests ==
    \E r \in Requests :
        \/ VerifyRequest(r)
        \/ GenerateNumber(r)
        \/ InsertRecord(r)
        \/ FillAndSave(r)

SpecRequests == InitRequests /\ [][NextRequests]_vars

\* C23: under every interleaving of concurrent create_quotation requests, no
\* two requests hold the same quotation number and no request ends because
\* its number is already in the table.
C23_ConcurrentNumbersUnique ==
    /\ \A r, s \in DOMAIN requests :
          (/\ r # s
           /\ requests[r].quotation_number # <<>>
           /\ requests[s].quotation_number # <<>>)
          => requests[r].quotation_number # requests[s].quotation_number
    /\ \A r \in DOMAIN requests : requests[r].detail # "IntegrityError"

\* C30: a request whose fill failed has ended with 500, and a record without
\* a file is the record of a request that is still between its insert and its
\* fill: once the calls are completed every persisted quotation has a file.
C30_RecordGoesWhenFillFails ==
    /\ \A r \in DOMAIN requests :
          (requests[r].pc = "done" /\ requests[r].found /\ ~requests[r].fill)
          => requests[r].code = 500
    /\ \A q \in quotations :
          q.file = "none" =>
              \E r \in DOMAIN requests :
                  /\ requests[r].pc = "fill"
                  /\ requests[r].id = q.id
                  /\ requests[r].quotation_number = q.quotation_number

\* a request has failed in its fill after its record was committed, another
\* request's record is kept with its file, and all requests are completed
C30_Witness ==
    /\ \A r \in DOMAIN requests : requests[r].pc = "done"
    /\ \E r \in DOMAIN requests :
          /\ requests[r].detail = "Failed to create quotation"
          /\ requests[r].id # 0
          /\ \A q \in quotations : q.quotation_number # requests[r].quotation_number
    /\ \E q \in quotations : q.file = "filled"

(***************************************************************************)
(* Properties of the records over sequences of requests.                   *)
(***************************************************************************)
\* C24: after every request every invoice's quotation_id is the id of a
\* quotation in the table, and delete_quotation by an admin on a quotation
\* that an invoice refers to ends with 400 and leaves both tables unchanged.
C24_InvoicesReferToQuotations ==
    [][/\ \A inv \in invoices' : Found(quotations', inv.quotation_id)
       /\ (/\ ServesRequest
           /\ response'.endpoint = "delete_quotation"
           /\ require_admin_or_superadmin(response'.caller) = 0
           /\ \E inv \in invoices : inv.quotation_id = response'.of)
          => /\ response'.code = 400
             /\ quotations' = quotations
             /\ invoices' = invoices]_vars

\* an admin asked to delete a quotation that an invoice refers to, was turned
\* down with 400, and the quotation is still there
C24_Witness ==
    /\ response.endpoint = "delete_quotation"
    /\ response.caller = "admin"
    /\ response.code = 400
    /\ Found(quotations, response.of)
    /\ \E inv \in invoices : inv.quotation_id = response.of

\* C28: over every sequence of create_quotation and delete_quotation calls
\* within one year, no two successful creations were given the same number.
C28_NumberNeverReissued ==
    \A i, j \in 1..Len(created) :
        (i < j /\ created[i].year = created[j].year)
        => created[i].quotation_number # created[j].quotation_number

(***************************************************************************)
(* EmailScheduler.process_scheduled_emails, run by the background job and  *)
(* by the /emails/process-scheduled endpoint, and cancel_scheduled_email.  *)
(* Time is counted in days.  Each execution has its own database session:  *)
(* the rows it loaded with its query are what it reads until its first     *)
(* commit, after which a row is read anew from the table.                  *)
(***************************************************************************)
MaxTime == 2
MaxSends == 2

EmailIds == {1, 2}
ProcessRuns == {"job", "endpoint"}

\* _calculate_next_send
_calculate_next_send(current_time, recurrence_pattern) ==
    LET frequency == dict_get(recurrence_pattern, "frequency", "daily")
        interval == dict_get(recurrence_pattern, "interval", 1)
    IN IF frequency = "daily" THEN current_time + interval
       ELSE IF frequency = "weekly" THEN current_time + 7 * interval
       ELSE IF frequency = "monthly" THEN current_time + 30 * interval
       ELSE current_time + interval

RecurrencePatterns ==
    { [frequency |-> "daily", interval |-> 2],
      [frequency |-> "weekly", interval |-> 1],
      [frequency |-> "daily", interval |-> 1, end_date |-> 1] }

\* a row of scheduled_emails as schedule_email stores it: pending, never sent
ScheduledEmail(scheduled_time, is_recurring, recurrence_pattern) ==
    [status |-> "pending", scheduled_time |-> scheduled_time,
     is_recurring |-> is_recurring, recurrence_pattern |-> recurrence_pattern,
     last_sent_at |-> None, next_send_at |-> None]

ScheduledEmails ==
    {ScheduledEmail(t, FALSE, None) : t \in {0, 1}}
      \cup {ScheduledEmail(0, TRUE, p) : p \in RecurrencePatterns}

IdleRun == [pc |-> "idle", now |-> 0, seen |-> 0, todo |-> <<>>, loaded |-> <<>>,
            committed |-> FALSE]

InitScheduler ==
    /\ pc = "scheduler"
    /\ doc = EmptyDoc
    /\ wall_clock = 0
    /\ scheduled_emails \in {rows \in [EmailIds -> ScheduledEmails] :
                                rows[2] = ScheduledEmail(0, FALSE, None)}
    /\ email_history = <<>>
    /\ process_runs = [r \in ProcessRuns |-> IdleRun]
    /\ cancel_returned = {}
    /\ IdleFill
    /\ IdleApply
    /\ IdleAnalyze
    /\ IdleParse
    /\ IdleRepeat
    /\ IdleApi
    /\ IdleExtract
    /\ IdleWorkers
    /\ IdleRequests

schedulerFrame ==
    UNCHANGED <<pc, doc, fillVars, applyVars, analyzeVars, parseVars, repeatVars, apiVars,
                extractVars, workerVars, requestVars>>

\* a day goes by
Tick ==
    /\ wall_clock < MaxTime
    /\ wall_clock' = wall_clock + 1
    /\ UNCHANGED <<scheduled_emails, email_history, process_runs, cancel_returned>>
    /\ schedulerFrame

\* status == 'pending' and (scheduled_time <= now or next_send_at <= now);
\* a next_send_at that is NULL compares to nothing
IsDue(row, now) ==
    /\ row.status = "pending"
    /\ \/ row.scheduled_time <= now
       \/ (row.next_send_at # None /\ row.next_send_at[1] <= now)

\* the ids of a set in ascending order
RECURSIVE Ascending(_)
Ascending(ids) ==
    IF ids = {} THEN <<>>
    ELSE LET least == CHOOSE i \in ids : \A j \in ids : i <= j
         IN <<least>> \o Ascending(ids \ {least})

\* now = datetime.now() and the query for the pending emails that are due;
\* the execution is over at once when the query returns none
QueryDue(r) ==
    /\ process_runs[r].pc = "idle"
    /\ LET due == {i \in EmailIds : IsDue(scheduled_emails[i], wall_clock)}
       IN process_runs' = [process_runs EXCEPT ![r] =
             IF due = {} THEN IdleRun
             ELSE [pc |-> "loop", now |-> wall_clock, seen |-> Len(email_history),
                   todo |-> Ascending(due), loaded |-> scheduled_emails,
                   committed |-> FALSE]]
    /\ UNCHANGED <<wall_clock, scheduled_emails, email_history, cancel_returned>>
    /\ schedulerFrame

\* the row of the email as the session of the execution shows it
RowSeen(r, id) ==
    IF process_runs[r].committed THEN scheduled_emails[id] ELSE process_runs[r].loaded[id]

\* the assignments to scheduled_email after send_email returned success
AfterSuccess(row, now) ==
    IF row.is_recurring /\ row.recurrence_pattern # None
    THEN LET next_send == _calculate_next_send(
                 IF row.next_send_at = None THEN row.scheduled_time ELSE row.next_send_at[1],
                 row.recurrence_pattern)
         IN IF "end_date" \in DOMAIN row.recurrence_pattern
               /\ next_send > row.recurrence_pattern["end_date"]
            THEN [last_sent_at |-> <<now>>, status |-> "sent", next_send_at |-> None]
            ELSE [last_sent_at |-> <<now>>, next_send_at |-> <<next_send>>]
    ELSE [last_sent_at |-> <<now>>, status |-> "sent"]

\* the UPDATE of a commit: the assigned columns, on the row as the table has it
Updated(row, assigned) ==
    [f \in DOMAIN row |-> IF f \in DOMAIN assigned THEN assigned[f] ELSE row[f]]

\* the end of one pass of the loop
Advance(r) ==
    IF Len(process_runs[r].todo) = 1
    THEN [process_runs EXCEPT ![r] = IdleRun]
    ELSE [process_runs EXCEPT ![r].todo = Tail(@), ![r].committed = TRUE]

\* one pass of the loop over the emails the query returned.  outcome: no
\* email settings, send_email returned success or failure, or an exception
\* was raised before the send.
ProcessNext(r, outcome) ==
    /\ process_runs[r].pc = "loop"
    /\ process_runs[r].todo # <<>>
    /\ LET id == Head(process_runs[r].todo)
           row == RowSeen(r, id)
           now == process_runs[r].now
       IN CASE outcome \in {"no settings", "exception"} ->
                 /\ scheduled_emails' = [scheduled_emails EXCEPT ![id] =
                        Updated(@, [status |-> "failed"])]
                 /\ UNCHANGED email_history
            [] outcome = "failed" ->
                 /\ Len(email_history) < MaxSends
                 /\ scheduled_emails' = [scheduled_emails EXCEPT ![id] =
                        Updated(@, [status |-> "failed"])]
                 /\ email_history' = Append(email_history,
                        [id |-> id, status |-> "failed", at |-> now, next_send_at |-> None,
                         seen |-> process_runs[r].seen])
            [] outcome = "sent" ->
                 /\ Len(email_history) < MaxSends
                 /\ scheduled_emails' = [scheduled_emails EXCEPT ![id] =
                        Updated(@, AfterSuccess(row, now))]
                 /\ email_history' = Append(email_history,
                        [id |-> id, status |-> "sent", at |-> now,
                         next_send_at |-> dict_get(AfterSuccess(row, now), "next_send_at", None),
                         seen |-> process_runs[r].seen])
    /\ process_runs' = Advance(r)
    /\ UNCHANGED <<wall_clock, cancel_returned>>
    /\ schedulerFrame

\* DELETE /emails/scheduled/{id} : cancel_scheduled_email, by an admin
CancelScheduledEmail(id) ==
    /\ id \notin {c.id : c \in cancel_returned}
    /\ scheduled_emails' = [scheduled_emails EXCEPT ![id] = Updated(@, [status |-> "cancelled"])]
    /\ cancel_returned' = cancel_returned \cup {[id |-> id, sends |-> Len(email_history)]}
    /\ UNCHANGED <<wall_clock, email_history, process_runs>>
    /\ schedulerFrame

NextScheduler ==
    \/ Tick
    \/ \E r \in ProcessRuns : QueryDue(r)
    \/ \E r \in ProcessRuns, outcome \in {"no settings", "exception", "failed", "sent"} :
          ProcessNext(r, outcome)
    \/ \E id \in EmailIds : CancelScheduledEmail(id)

SpecScheduler == InitScheduler /\ [][NextScheduler]_vars

(***************************************************************************)
(* Properties of the scheduled emails.                                     *)
(***************************************************************************)
\* C25: when a recurring email was sent successfully and its next_send_at
\* set to T, an execution of process_scheduled_emails that starts afterwards
\* at a time before T does not send it.
C25_NotSentBeforeNextSendTime ==
    \A i, j \in 1..Len(email_history) :
        (/\ i < j
         /\ email_history[i].id = email_history[j].id
         /\ email_history[i].status = "sent"
         /\ email_history[j].status = "sent"
         /\ email_history[i].next_send_at # None
         /\ email_history[j].seen >= i)
        => email_history[j].at >= email_history[i].next_send_at[1]

\* C26: under every interleaving of the executions of the job and of the
\* endpoint, an email that is not recurring is sent at most once.
C26_SentAtMostOnce ==
    \A id \in DOMAIN scheduled_emails :
        ~scheduled_emails[id].is_recurring =>
            Cardinality({k \in 1..Len(email_history) :
                            /\ email_history[k].id = id
                            /\ email_history[k].status = "sent"}) <= 1

\* C27: once cancel_scheduled_email has returned for an email, no email is
\* sent for it and its status is 'cancelled'.
C27_CancelledStaysCancelled ==
    \A c \in cancel_returned :
        /\ scheduled_emails[c.id].status = "cancelled"
        /\ \A k \in 1..Len(email_history) :
              k > c.sends => email_history[k].id # c.id

(***************************************************************************)
(* Locating a suggestion and applying it: analyze_template_with_ai finds   *)
(* the suggestion's text in the clean text of the stored template,         *)
(* apply_ai_suggestions replaces it in the stored template.                *)
(***************************************************************************)
\* the literal lines get_clean_text_for_ai writes
DocumentContentLabel == <<"=", "=", "=", " ", "D", "O", "C", "U", "M", "E", "N", "T", " ", "C", "O", "N", "T", "E", "N", "T", " ", "=", "=", "=", "\n">>
TablesLabel == <<"\n", "=", "=", "=", " ", "T", "A", "B", "L", "E", "S", " ", "=", "=", "=", "\n">>
HeadersLabel == <<"\n", "=", "=", "=", " ", "H", "E", "A", "D", "E", "R", "S", " ", "=", "=", "=", "\n">>
FootersLabel == <<"\n", "=", "=", "=", " ", "F", "O", "O", "T", "E", "R", "S", " ", "=", "=", "=", "\n">>
TableLabel(table_idx) == <<"T", "a", "b", "l", "e", " ">> \o int_str(table_idx + 1) \o <<":">>

\* _extract_table_content: text_content, one line for each row that has a
\* cell with text, its texts joined by " | "
text_content(table) ==
    LET row_texts(r) == NonEmpty([c \in 1..Len(table.rows[r].cells) |-> table.rows[r].cells[c].text])
        lines == [r \in 1..Len(table.rows) |->
                     IF row_texts(r) # <<>>
                     THEN << str_join(<<" ", "|", " ">>, row_texts(r)) >>
                     ELSE <<>>]
    IN Concat(lines)

\* "#" * (item["level"] or 1)
level_prefix(level) ==
    LET n == IF level = None \/ level = <<0>> THEN 1 ELSE level[1]
    IN [i \in 1..n |-> "#"]

\* get_clean_text_for_ai: the body, the tables, the headers and the footers,
\* each line joined to the next by a newline
get_clean_text_for_ai(extracted_content) ==
    LET items == extracted_content.structured_text
        body == Concat([i \in 1..Len(items) |->
                    << IF items[i].type = "heading"
                       THEN level_prefix(items[i].level) \o <<" ">> \o items[i].content
                       ELSE items[i].content,
                       <<>> >>])
        tables == extracted_content.tables
        table_parts ==
            IF tables # <<>>
            THEN <<TablesLabel>> \o Concat([t \in 1..Len(tables) |->
                     <<TableLabel(t - 1)>> \o text_content(tables[t]) \o << <<>> >>])
            ELSE <<>>
        header_parts == IF extracted_content.headers # <<>>
                        THEN <<HeadersLabel>> \o extracted_content.headers ELSE <<>>
        footer_parts == IF extracted_content.footers # <<>>
                        THEN <<FootersLabel>> \o extracted_content.footers ELSE <<>>
    IN str_join(<<"\n">>, <<DocumentContentLabel>> \o body \o table_parts
                              \o header_parts \o footer_parts)

(***************************************************************************)
(* The stored templates and the suggestions of the service.                *)
(***************************************************************************)
LocateBodyTexts == {<<"a">>, <<"A", "b">>, <<"x">>}
LocateStyles == {<<"N", "o", "r", "m", "a", "l">>, <<"T", "i", "t", "l", "e">>}
LocateCellTexts == {<<>>, <<"b">>}
LocateHeaderTexts == {<<>>, <<"a", "b">>}
LocateFooterTexts == {<<>>, <<"b">>}

\* the paragraphs of a header or a footer of text t (none for the empty text)
MarginParagraphs(t) == IF t = <<>> THEN <<>> ELSE <<Paragraph(<<Run(t, "bold")>>)>>

\* the tables of a template: none, or one of two cells, the first of text u
LocateTables(u) ==
    IF u = <<>> THEN <<>>
    ELSE << [rows |-> << [cells |->
                << [paragraphs |-> <<Paragraph(<<Run(u, "bold")>>)>>],
                   [paragraphs |-> <<Paragraph(<<Run(<<"x">>, "bold")>>)>>] >>] >>] >>

\* a template of one styled body paragraph, its tables, a header and a footer
LocateDoc(t, style, u, h, f) ==
    [paragraphs |-> <<StyledParagraph(t, style)>>,
     tables |-> LocateTables(u),
     sections |-> << [header |-> MarginParagraphs(h), footer |-> MarginParagraphs(f)] >>]

LocateDocs ==
    {LocateDoc(t, style, u, h, f) : t \in LocateBodyTexts, style \in LocateStyles,
        u \in LocateCellTexts, h \in LocateHeaderTexts, f \in LocateFooterTexts}

SuggestedPlaceholder == <<"{", "{", "n", "}", "}">>

\* the suggestions the service may answer with
LocateEntries ==
    {[name |-> <<"n">>, original_text |-> t, suggested_placeholder |-> SuggestedPlaceholder,
      confidence |-> 9] : t \in {<<"a">>, <<"b">>, <<"a", "b">>, <<"x">>}}

InitLocate ==
    /\ pc = "stored"
    /\ doc \in LocateDocs
    /\ IdleApply
    /\ IdleParse
    /\ IdleFill
    /\ IdleAnalyze
    /\ IdleRepeat
    /\ IdleApi
    /\ IdleExtract
    /\ IdleWorkers
    /\ IdleRequests
    /\ IdleScheduler

\* analyze_template_with_ai: the clean text of the stored template, the
\* answer of the service, the variables located in the clean text
AnalyzeTemplateWithAi ==
    /\ pc = "stored"
    /\ \E var_data \in LocateEntries :
          LET extracted_content == _extract_document_content(doc)
              clean_text == get_clean_text_for_ai(extracted_content)
          IN /\ document_text' = clean_text
             /\ response_data' = [variables |-> <<var_data>>]
             /\ variables' = _parse_ai_response([variables |-> <<var_data>>], clean_text)
    /\ pc' = "analyzed"
    /\ UNCHANGED <<doc, fillVars, applyVars, analyzeVars, repeatVars, apiVars, extractVars, workerVars, requestVars, schedulerVars>>

\* apply_ai_suggestions: the replacements of the accepted variables applied to
\* the stored template
apply_ai_suggestions(d, accepted_variables) ==
    apply_variable_replacements_to_document(d,
        all_replacements([k \in 1..Len(accepted_variables) |->
                            <<accepted_variables[k].original_text,
                              accepted_variables[k].suggested_placeholder>>], <<>>))

\* the suggestion of the analysis is accepted and applied
ApplyAiSuggestions ==
    /\ pc = "analyzed"
    /\ replacements' = all_replacements(
            [k \in 1..Len(response_data.variables) |->
                <<response_data.variables[k].original_text,
                  response_data.variables[k].suggested_placeholder>>], <<>>)
    /\ applied' = apply_ai_suggestions(doc, response_data.variables)
    /\ pc' = "suggestions applied"
    /\ UNCHANGED <<doc, fillVars, reapplied, analyzeVars, parseVars, repeatVars, apiVars, extractVars, workerVars, requestVars, schedulerVars>>

NextLocate == AnalyzeTemplateWithAi \/ ApplyAiSuggestions

SpecLocate == InitLocate /\ [][NextLocate]_vars

(***************************************************************************)
(* Properties of locating and applying.                                    *)
(***************************************************************************)
\* the suggestion was given offsets by the analysis
Located == variables # <<>> /\ variables[1].start_position # None

HoldsPlaceholder(d) ==
    \E i \in 1..Len(TextsOfDoc(d)) : str_in(SuggestedPlaceholder, TextsOfDoc(d)[i])

\* C29: when the analysis gave a suggestion offsets, applying the single
\* replacement original_text -> suggested_placeholder changes the document:
\* afterwards a paragraph or a cell contains the suggested placeholder, also
\* when the document's text differs from original_text in letter case and
\* when the text lies in a header or a footer.
C29_LocatedIsApplied ==
    (pc = "suggestions applied" /\ Located) => HoldsPlaceholder(applied)

====
